---- MODULE Spec2Model ----
(***************************************************************************)
(* Peer-to-peer session establishment of 174afpschess:                     *)
(*   - WebRTCConnection  (src/webrtc-connection.js, the Negotiator),       *)
(*   - SignalingServer   (src/signaling-server.js, the Relay),             *)
(*   - NetworkManager    (the Orchestrator).                               *)
(* Each component has its own specification over the shared variables.     *)
(***************************************************************************)
EXTENDS Integers, Sequences, FiniteSets, TLC

\* JavaScript null / undefined.
NULL == "null"

\* ---------------------------------------------------------------- bounds
\* Number of addIceCandidate calls made from outside the connection.
MaxCand == 3
\* Number of setRemoteDescription calls made on one connection.
MaxSrd == 1
\* Number of messages written to the data channels.
MaxSends == 2
\* Number of candidates the relay accepts (POST /ice answered with success).
MaxPosts == 2
\* The same, where the rewriting of candidates is checked on every input shape.
MaxIcePosts == 1
\* Number of relay requests the two candidate timers dispatch.
MaxRequests == 2
\* Number of candidates the local transport discovers.
MaxLocal == 2
\* Number of times the transport reaches the connected state.
MaxConnects == 1
MaxEvents == 3
\* Number of moves, battle ends and foreign requests in a game.
MaxPlies == 5
\* Number of answer-poll ticks that find the answer.
MaxAnswerTicks == 2

\* ------------------------------------------------------- program constants
\* fetchOfferWithRetry(baseUrl, maxRetries = 15, delay = 1000)
maxRetries == 15
delay == 1000

VARIABLES
  \* WebRTCConnection fields
  connection,            \* NetworkManager.connection: "null" or "object"
  isHost,                \* WebRTCConnection.isHost
  peerConnection,        \* "null", "open" or "closed" (RTCPeerConnection)
  remoteDescriptionSet,
  remoteUfrag,
  pendingIceCandidates,
  pcRemoteDescription,   \* the transport's remoteDescription (NoDescription or a description)
  applied,               \* candidates handed to peerConnection.addIceCandidate, in order
  submitted,             \* candidates passed to addIceCandidate by callers, in order
  srd,                   \* the setRemoteDescription calls made so far, each with its position
  thrown,                \* the last error createOffer, createAnswer, addIceCandidate or the
                         \* check of setRemoteDescription raised to the caller
  reliableChannel,       \* "null" or the readyState of the game-state channel
  unreliableChannel,     \* "null" or the readyState of the battle-updates channel
  written,               \* what was passed to RTCDataChannel.send, in order
  lastSend,              \* the last call of sendMessage / NetworkManager.send and its result
  channelHandlers,       \* labels of the channels setupChannelHandlers was called on
  messageCallback,       \* "null" or the handler registered with onMessage
  connectionStateCallback, \* "null" or the handler registered with onConnectionStateChange
  events,                \* registrations, inbound channel messages and state changes, in order
  \* SignalingServer fields
  server,                \* "null", "listening" or "closed" (http.Server)
  primaryHostIp,
  hostOffer,
  guestAnswer,
  hostIceCandidates,
  guestIceCandidates,
  posted,                \* number of candidates stored so far; numbers the stored entries
  delivered,             \* the entries returned by GET /ice responses, in order
  lastReq,               \* the last request served by the relay and its response
  \* NetworkManager fields, its timers and its calls in progress
  signalingServer,       \* "null" or "object"
  disconnected,          \* whether disconnect() has been called
  icePollInterval,       \* "null", "active" or "cleared" (the handle of the candidate-pull timer)
  answerPollInterval,    \* "null", "active" or "cleared" (the handle of the answer-poll timer)
  pushInterval,          \* whether the candidate-push timer runs (its handle is not kept)
  shutdownTimers,        \* pending setTimeout(shutdown, 2000) timers
  answerWaits,           \* answer-poll ticks awaiting their setRemoteDescription call
  nmPc,                  \* where startHost / connectToHost stands
  nmError,               \* "null" or why startHost / connectToHost threw
  attempt,               \* i of fetchOfferWithRetry
  offerRequests,         \* GET /offer requests dispatched so far
  sleeps,                \* the delays fetchOfferWithRetry slept so far, in order
  answerPosts,           \* POST /answer requests dispatched so far
  inflight,              \* requests of the two candidate timers that are in flight
  pulled,                \* GET /ice responses whose candidates are being applied
  issued,                \* requests dispatched by the two candidate timers so far
  connectionState,       \* RTCPeerConnection.connectionState as the transport drives it
  connectedObserved,     \* times the state handler was called with 'connected'
  iceCandidates,         \* WebRTCConnection.iceCandidates
  \* The game of main.js, one copy at each peer ("host" and "guest")
  game,                  \* per peer: board, currentTurn, selectedPiece, validMoves (ChessGame)
  battle,                \* per peer: battleArena.battleActive, battleFromRow .. battleToCol, the pieces
  pageConnected,         \* per peer: isConnected of main.js
  inbox,                 \* per peer: messages on the game-state channel not yet handled
  lastRequest,           \* the last moveRequest the host handled and what it did with it
  lastBattleEnd,         \* the last handleBattleEnd call and the board it left
  plies,                 \* moves, battle ends and foreign requests so far
  \* POST requests whose body is still arriving at the relay
  receiving,             \* per request in progress: its route, the chunks to come, its body so far
  serial,                \* the session record of the same requests served one at a time
  \* The WebSocket room server of server.js
  gameRooms,             \* room code -> board, currentTurn, players, clients
  sockets,               \* per client socket: readyState, roomCode, playerColor, what it was sent
  \* The ICE server list of the connection
  customIceServers,      \* the list handed to sanitizeIceServers
  sanitizedCustomIce     \* what sanitizeIceServers returned

negVars == <<connection, isHost, peerConnection, remoteDescriptionSet, remoteUfrag,
             pendingIceCandidates, pcRemoteDescription, applied, submitted, srd, thrown>>

inboundVars == <<messageCallback, connectionStateCallback, events>>

chanVars == <<reliableChannel, unreliableChannel, written, lastSend, channelHandlers, inboundVars>>

candVars == <<remoteDescriptionSet, remoteUfrag, pendingIceCandidates,
              pcRemoteDescription, applied, submitted, srd, thrown>>

relayVars == <<server, primaryHostIp, hostOffer, guestAnswer, hostIceCandidates,
               guestIceCandidates, posted, delivered, lastReq>>

flowVars == <<nmPc, nmError, attempt, offerRequests, sleeps, answerPosts>>

timerVars == <<icePollInterval, answerPollInterval, pushInterval, shutdownTimers, answerWaits>>

reqVars == <<inflight, pulled, issued>>

transportVars == <<connectionState, connectedObserved, iceCandidates>>

orchVars == <<signalingServer, disconnected, flowVars, timerVars, reqVars, transportVars>>

gameVars == <<game, battle, pageConnected, inbox, lastRequest, lastBattleEnd, plies>>

wireVars == <<receiving, serial>>

roomVars == <<gameRooms, sockets>>

iceVars == <<customIceServers, sanitizedCustomIce>>

\* The components beside the peer: request bodies arriving at the relay, the
\* WebSocket room server, and the ICE server list of the connection.
sideVars == <<wireVars, roomVars, iceVars>>

vars == <<negVars, chanVars, relayVars, orchVars, gameVars, sideVars>>

\* ---------------------------------------------------------------- strings
UNDEFINED == "undefined"

\* A string is a sequence of chunks; " " and ".local" are chunks of their own,
\* so that split(' ') and includes('.local') can be computed on it.
T(x) == <<x>>

RECURSIVE JoinSpace(_)
JoinSpace(parts) ==
  IF parts = <<>> THEN <<>>
  ELSE IF Len(parts) = 1 THEN parts[1]
  ELSE parts[1] \o <<" ">> \o JoinSpace(Tail(parts))

RECURSIVE SplitAcc(_, _, _)
SplitAcc(str, cur, acc) ==
  IF str = <<>> THEN Append(acc, cur)
  ELSE IF Head(str) = " " THEN SplitAcc(Tail(str), <<>>, Append(acc, cur))
  ELSE SplitAcc(Tail(str), Append(cur, Head(str)), acc)

\* str.split(' ')
SplitSpace(str) == SplitAcc(str, <<>>, <<>>)

\* str.includes('.local')
IncludesLocal(str) == \E n \in DOMAIN str : str[n] = ".local"

\* Candidate strings: foundation component protocol priority address port typ ...
CandMdnsHost ==
  JoinSpace(<<T("1"), T("1"), T("udp"), T("2122"), <<"h1", ".local">>, T("5000"), T("typ"), T("host")>>)
CandIpHost ==
  JoinSpace(<<T("1"), T("1"), T("udp"), T("2122"), T("192.168.1.5"), T("5000"), T("typ"), T("host")>>)
CandSrflxRaddrLocal ==
  JoinSpace(<<T("2"), T("1"), T("udp"), T("1686"), T("203.0.113.9"), T("6000"), T("typ"), T("srflx"),
              T("raddr"), <<"h1", ".local">>>>)
CandLocalDomain ==
  JoinSpace(<<T("1"), T("1"), T("udp"), T("2122"), <<"pc", ".local", "domain">>, T("5000"), T("typ"), T("host")>>)
CandShortMdns ==
  JoinSpace(<<T("1"), T("1"), T("udp"), T("2122"), <<"h1", ".local">>>>)

\* ------------------------------------------------------------ descriptions
\* An SDP text is a sequence of lines, each an attribute with its value.
Line(a, v) == [attr |-> a, value |-> v]

SdpXyz == <<Line("v", "0"), Line("ice-ufrag", "xyz")>>
SdpEmptyThenAbc == <<Line("ice-ufrag", ""), Line("ice-ufrag", "abc"), Line("ice-ufrag", "xyz")>>
SdpNoUfrag == <<Line("v", "0")>>

\* peerConnection.remoteDescription before any description was applied.
NoDescription == [type |-> "none", sdp |-> <<>>]

Descriptions == { [type |-> "answer", sdp |-> s] : s \in {SdpXyz, SdpEmptyThenAbc, SdpNoUfrag} }

\* sdp.match(/a=ice-ufrag:([^\r\n]+)/): the value of the first ice-ufrag line
\* that has at least one character; null when there is none or the sdp is empty.
RECURSIVE extractRemoteUfrag(_)
extractRemoteUfrag(sdp) ==
  IF sdp = <<>> THEN NULL
  ELSE IF Head(sdp).attr = "ice-ufrag" /\ Head(sdp).value # ""
       THEN Head(sdp).value
       ELSE extractRemoteUfrag(Tail(sdp))

\* -------------------------------------------------------------- candidates
\* A candidate object: obj = FALSE is a null/undefined value; candidate is the
\* candidate string (<<>> when empty or missing); id tells the objects passed to
\* addIceCandidate apart.
Tags == {"abc", "xyz"}

CandShapes ==
  { [obj |-> FALSE, candidate |-> <<>>, usernameFragment |-> NULL],
    [obj |-> TRUE,  candidate |-> <<>>, usernameFragment |-> NULL] }
  \cup { [obj |-> TRUE, candidate |-> CandIpHost, usernameFragment |-> u] : u \in Tags \cup {NULL} }

Cand(i, s) == [id |-> i, obj |-> s.obj, candidate |-> s.candidate,
               usernameFragment |-> s.usernameFragment]

\* The synchronous part of addIceCandidate (up to its await), as the change it
\* makes to <<pendingIceCandidates, applied>>.
IsEmptyCandidate(c) == ~c.obj \/ c.candidate = <<>>

IsStaleNever(c, ufrag) == FALSE

IsStale(c, ufrag) ==
  ufrag # NULL /\ c.usernameFragment # NULL /\ c.usernameFragment # ufrag

\* A candidate string the transport cannot parse: RTCPeerConnection.addIceCandidate
\* rejects it.
CandMalformed == <<"candidate:", " ", "?">>

TransportRejects(c) == c.candidate = CandMalformed

\* Errors raised to a caller.
NoError == [api |-> "none", message |-> "none"]
NotInitialized(api) == [api |-> api, message |-> "Peer connection not initialized"]
TransportError(api) == [api |-> api, message |-> "transport"]

\* A check that lets every call through
UninitializedNever(pc) == FALSE

\* if (!this.peerConnection) throw new Error('Peer connection not initialized')
Uninitialized(pc) == pc = NULL

\* await peerConnection.addIceCandidate(...) outside a try block
AddRaisesNoCatch(o, rejects) == o = "applied" /\ rejects

\* try { await peerConnection.addIceCandidate(...) } catch (error) { console.error(...) }:
\* whether addIceCandidate raises to its caller, given how the call ended and
\* whether the transport rejects the candidate.
AddRaises(o, rejects) == FALSE

AddOutcome(c, rdSet, ufrag) ==
  IF IsEmptyCandidate(c) THEN "ignored"
  ELSE IF IsStale(c, ufrag) THEN "dropped"
  ELSE IF ~rdSet THEN "queued"
  ELSE "applied"

\* addIceCandidate that queues the candidate even when the remote description
\* is marked set
AddPendingAlways(c, rdSet, ufrag, pending) ==
  IF AddOutcome(c, rdSet, ufrag) \in {"queued", "applied"} THEN Append(pending, c)
  ELSE pending

AddPendingNoQueue(c, rdSet, ufrag, pending) == pending

AddPending(c, rdSet, ufrag, pending) ==
  IF AddOutcome(c, rdSet, ufrag) = "queued" THEN Append(pending, c) ELSE pending

AddApplied(c, rdSet, ufrag, app) ==
  IF AddOutcome(c, rdSet, ufrag) = "applied" THEN Append(app, c.id) ELSE app

\* ------------------------------------------------------------------- Init
\* ------------------------------------------------------------------ relay
\* The candidate of a POST /ice body: obj = FALSE when the field is missing.
IceCandidate(str) == [id |-> 0, obj |-> TRUE, candidate |-> str, usernameFragment |-> "xyz"]
MissingCandidate == [id |-> 0, obj |-> FALSE, candidate |-> <<>>, usernameFragment |-> NULL]

AllIceCandidates ==
  { IceCandidate(str) : str \in {CandMdnsHost, CandIpHost, CandSrflxRaddrLocal,
                                  CandLocalDomain, CandShortMdns, <<>>} }
  \cup {MissingCandidate}

RelayIceCandidates == { IceCandidate(CandMdnsHost), IceCandidate(CandIpHost) }

\* Network addresses; <<>> is null (or an empty string).
NoIp == <<>>
RemoteAddresses == { <<"::ffff:", "10.0.0.7">>, <<"10.0.0.7">>, NoIp }
RelayRemoteAddresses == { <<"::ffff:", "10.0.0.7">> }

\* What getLocalIPs() can return when the server starts listening.
InterfaceLists ==
  { <<>>,
    <<[address |-> <<"192.168.1.2">>, isPrimary |-> FALSE]>>,
    <<[address |-> <<"172.16.0.3">>, isPrimary |-> FALSE],
      [address |-> <<"192.168.1.2">>, isPrimary |-> TRUE]>> }

RelayInterfaceLists ==
  { <<[address |-> <<"172.16.0.3">>, isPrimary |-> FALSE],
      [address |-> <<"192.168.1.2">>, isPrimary |-> TRUE]>> }

\* (ips.find(ip => ip.isPrimary) || ips[0] || {}).address || null
PrimaryAddress(ips) ==
  IF \E n \in DOMAIN ips : ips[n].isPrimary
  THEN ips[CHOOSE n \in DOMAIN ips :
             ips[n].isPrimary /\ \A m \in DOMAIN ips : ips[m].isPrimary => n <= m].address
  ELSE IF ips # <<>> THEN ips[1].address
  ELSE NoIp

\* cleanIp(ip): strip the IPv6-mapped IPv4 prefix
cleanIp(ip) ==
  IF ip = NoIp THEN NoIp
  ELSE IF Head(ip) = "::ffff:" THEN Tail(ip)
  ELSE ip

\* sanitizeCandidate with the sixth token rewritten instead of the fifth
sanitizeCandidateWrongToken(candidate, fallbackIp) ==
  IF ~candidate.obj \/ candidate.candidate = <<>> \/ fallbackIp = NoIp THEN candidate
  ELSE IF ~IncludesLocal(candidate.candidate) THEN candidate
  ELSE LET parts == SplitSpace(candidate.candidate) IN
         IF Len(parts) < 6 THEN candidate
         ELSE [candidate EXCEPT !.candidate = JoinSpace([parts EXCEPT ![6] = fallbackIp])]

\* sanitizeCandidate(candidate, fallbackIp)
sanitizeCandidate(candidate, fallbackIp) ==
  IF ~candidate.obj \/ candidate.candidate = <<>> \/ fallbackIp = NoIp THEN candidate
  ELSE IF ~IncludesLocal(candidate.candidate) THEN candidate
  ELSE LET parts == SplitSpace(candidate.candidate) IN
         IF Len(parts) < 6 THEN candidate
         ELSE [candidate EXCEPT !.candidate = JoinSpace([parts EXCEPT ![5] = fallbackIp])]

\* Request bodies. kind: "garbage" (not JSON), "null" (the JSON value null) or
\* "object"; a missing field is UNDEFINED.
OfferValues == {"offer1", "offer2"}
AnswerValues == {"answer1", "answer2"}

SdpBodies(values) ==
  { [kind |-> "garbage", value |-> UNDEFINED], [kind |-> "null", value |-> UNDEFINED],
    [kind |-> "object", value |-> UNDEFINED] }
  \cup { [kind |-> "object", value |-> v] : v \in values }

\* isHost in a POST /ice body: the booleans, the string 'true', or missing.
IsHostValues == {"true", "false", "'true'", UNDEFINED}

IceBodies(cands, flags) ==
  { [kind |-> k, candidate |-> MissingCandidate, isHost |-> UNDEFINED] : k \in {"garbage", "null"} }
  \cup { [kind |-> "object", candidate |-> c, isHost |-> h] : c \in cands, h \in flags }

\* JSON.parse(body) followed by a read of a field raises on these bodies.
ParseRaises(body) == body.kind \in {"garbage", "null"}

NoReq == [op |-> "none", status |-> 0, arg |-> UNDEFINED, remote |-> NoIp,
          candidate |-> MissingCandidate, body |-> <<>>]

Req(op, status, arg, body) ==
  [op |-> op, status |-> status, arg |-> arg, remote |-> NoIp,
   candidate |-> MissingCandidate, body |-> body]

InitRelay ==
  /\ server = NULL
  /\ primaryHostIp = NoIp
  /\ hostOffer = NULL
  /\ guestAnswer = NULL
  /\ hostIceCandidates = <<>>
  /\ guestIceCandidates = <<>>
  /\ posted = 0
  /\ delivered = <<>>
  /\ lastReq = NoReq

\* ---------------------------------------------------------------- channels
\* The channel argument of sendMessage / send; "undefined" is an omitted argument.
ChannelArgs == {"game-state", "battle-updates", "chat", "undefined"}

\* Labels of the channels the remote side offers (ondatachannel).
ChannelLabels == {"game-state", "battle-updates", "chat"}

\* Application messages; JSON.stringify raises on one that cannot be serialized.
Messages == { [type |-> "move", serializable |-> TRUE],
              [type |-> "cyclic", serializable |-> FALSE] }

Stringify(m) == [json |-> m.type]

NoSend == [api |-> "none", channel |-> "undefined", target |-> NULL, hadConnection |-> FALSE,
           raised |-> FALSE, result |-> "none", wrote |-> FALSE]

\* sendMessage picks the slot: battle-updates is the unreliable one, anything
\* else the reliable one.
\* A choice that takes the reliable slot only when game-state is named
TargetIsUnreliableUnlessNamed(channel) == channel # "game-state"

TargetIsUnreliable(channel) == channel = "battle-updates"

\* The value sendMessage returns ("throw" when it raises to its caller), given
\* the slot's content and whether JSON.stringify or RTCDataChannel.send raises.
SendResultNoCatch(target, raises) ==
  IF target # NULL /\ target = "open"
  THEN (IF raises THEN "throw" ELSE "true")
  ELSE "false"

SendResult(target, raises) ==
  IF target # NULL /\ target = "open"
  THEN (IF raises THEN "false" ELSE "true")
  ELSE "false"

\* Whether the call puts data on the channel.
SendWrites(target, raises) == target # NULL /\ target = "open" /\ ~raises

InitNegotiator ==
  /\ connection = NULL
  /\ peerConnection = NULL
  /\ remoteDescriptionSet = FALSE
  /\ remoteUfrag = NULL
  /\ pendingIceCandidates = <<>>
  /\ pcRemoteDescription = NoDescription
  /\ applied = <<>>
  /\ submitted = <<>>
  /\ srd = <<>>
  /\ thrown = NoError
  /\ reliableChannel = NULL
  /\ unreliableChannel = NULL
  /\ written = <<>>
  /\ lastSend = NoSend
  /\ channelHandlers = {}
  /\ messageCallback = NULL
  /\ connectionStateCallback = NULL
  /\ events = <<>>

\* new NetworkManager(isHost)
InitOrchestrator ==
  /\ signalingServer = NULL
  /\ disconnected = FALSE
  /\ icePollInterval = NULL
  /\ answerPollInterval = NULL
  /\ pushInterval = FALSE
  /\ shutdownTimers = 0
  /\ answerWaits = {}
  /\ nmPc = "idle"
  /\ nmError = NULL
  /\ attempt = 0
  /\ offerRequests = 0
  /\ sleeps = <<>>
  /\ answerPosts = 0
  /\ inflight = <<>>
  /\ pulled = <<>>
  /\ issued = 0
  /\ connectionState = "new"
  /\ connectedObserved = 0
  /\ iceCandidates = <<>>

\* ------------------------------------------------------------------
\* The chess game (ChessGame) and the two players' pages (main.js)
\* ------------------------------------------------------------------

\* The two pages: the host plays white, the guest black.
Peers == {"host", "guest"}

Other(p) == IF p = "host" THEN "guest" ELSE "host"

\* playerColor = 'white' on the host's page, 'black' on the guest's
playerColor(p) == IF p = "host" THEN "white" ELSE "black"

Flip(turn) == IF turn = "white" THEN "black" ELSE "white"

Piece(type, color) == [type |-> type, color |-> color]

\* null on a square
NoPiece == [type |-> "null", color |-> "null"]

BackRank ==
  <<"rook", "knight", "bishop", "queen", "king", "bishop", "knight", "rook">>

\* ChessGame.initializeBoard()
initializeBoard ==
  [r \in 0..7 |-> [c \in 0..7 |->
     IF r = 1 THEN Piece("pawn", "black")
     ELSE IF r = 6 THEN Piece("pawn", "white")
     ELSE IF r = 0 THEN Piece(BackRank[c + 1], "black")
     ELSE IF r = 7 THEN Piece(BackRank[c + 1], "white")
     ELSE NoPiece]]

\* ChessGame.getPiece(row, col): null outside the board
getPiece(board, row, col) ==
  IF row < 0 \/ row > 7 \/ col < 0 \/ col > 7 THEN NoPiece
  ELSE board[row][col]

\* ChessGame.getPawnMoves: the forward square is offered whenever getPiece
\* finds nothing there, which includes the row beyond the last rank.
getPawnMoves(board, row, col, color) ==
  LET dir == IF color = "white" THEN -1 ELSE 1
      startRow == IF color = "white" THEN 6 ELSE 1
      forward ==
        IF getPiece(board, row + dir, col) = NoPiece
        THEN {<<row + dir, col>>} \cup
             (IF row = startRow /\ getPiece(board, row + 2 * dir, col) = NoPiece
              THEN {<<row + 2 * dir, col>>} ELSE {})
        ELSE {}
      captures ==
        {<<row + dir, col + dcol>> : dcol \in
           {d \in {-1, 1} :
              LET target == getPiece(board, row + dir, col + d)
              IN  target # NoPiece /\ target.color # color}}
  IN  forward \cup captures

RECURSIVE Slide(_, _, _, _, _, _)
\* the while loop of getSlidingMoves along one direction, from square (r, c)
Slide(board, r, c, dr, dc, color) ==
  IF ~(r >= 0 /\ r < 8 /\ c >= 0 /\ c < 8) THEN {}
  ELSE LET target == getPiece(board, r, c)
       IN  IF target = NoPiece
           THEN {<<r, c>>} \cup Slide(board, r + dr, c + dc, dr, dc, color)
           ELSE IF target.color # color THEN {<<r, c>>} ELSE {}

\* ChessGame.getSlidingMoves
getSlidingMoves(board, row, col, color, directions) ==
  UNION {Slide(board, row + d[1], col + d[2], d[1], d[2], color) :
           d \in directions}

\* ChessGame.getRookMoves
getRookMoves(board, row, col, color) ==
  getSlidingMoves(board, row, col, color,
                  {<<0, 1>>, <<0, -1>>, <<1, 0>>, <<-1, 0>>})

\* ChessGame.getBishopMoves
getBishopMoves(board, row, col, color) ==
  getSlidingMoves(board, row, col, color,
                  {<<1, 1>>, <<1, -1>>, <<-1, 1>>, <<-1, -1>>})

\* the shared body of getKnightMoves and getKingMoves
StepMoves(board, row, col, color, offsets) ==
  {<<row + o[1], col + o[2]>> : o \in
     {d \in offsets :
        LET r == row + d[1]
            c == col + d[2]
            target == getPiece(board, r, c)
        IN  /\ r >= 0 /\ r < 8 /\ c >= 0 /\ c < 8
            /\ (target = NoPiece \/ target.color # color)}}

\* ChessGame.getKnightMoves
getKnightMoves(board, row, col, color) ==
  StepMoves(board, row, col, color,
            {<<-2, -1>>, <<-2, 1>>, <<-1, -2>>, <<-1, 2>>,
             <<1, -2>>, <<1, 2>>, <<2, -1>>, <<2, 1>>})

\* ChessGame.getKingMoves
getKingMoves(board, row, col, color) ==
  StepMoves(board, row, col, color,
            ((-1..1) \X (-1..1)) \ {<<0, 0>>})

\* ChessGame.getValidMoves(row, col), as the set of offered squares
getValidMoves(board, row, col) ==
  LET piece == getPiece(board, row, col)
  IN  IF piece = NoPiece THEN {}
      ELSE IF piece.type = "pawn"
        THEN getPawnMoves(board, row, col, piece.color)
      ELSE IF piece.type = "rook"
        THEN getRookMoves(board, row, col, piece.color)
      ELSE IF piece.type = "knight"
        THEN getKnightMoves(board, row, col, piece.color)
      ELSE IF piece.type = "bishop"
        THEN getBishopMoves(board, row, col, piece.color)
      ELSE IF piece.type = "queen"
        THEN getRookMoves(board, row, col, piece.color) \cup
             getBishopMoves(board, row, col, piece.color)
      ELSE getKingMoves(board, row, col, piece.color)

\* selectedPiece = null
NoSelection == [row |-> -1, col |-> -1, piece |-> NoPiece]

\* The page before main.js has run: no game object yet.
NoGame ==
  [board |-> <<>>, currentTurn |-> "null",
   selectedPiece |-> NoSelection, validMoves |-> {}]

\* new ChessGame()
NewGame ==
  [board |-> initializeBoard, currentTurn |-> "white",
   selectedPiece |-> NoSelection, validMoves |-> {}]

\* ChessGame.movePiece: the destination is written first, then the origin
\* is cleared, then the turn passes.
movePiece(g, fromRow, fromCol, toRow, toCol) ==
  LET piece == g.board[fromRow][fromCol]
      placed == [g.board EXCEPT ![toRow][toCol] = piece]
  IN  [g EXCEPT !.board = [placed EXCEPT ![fromRow][fromCol] = NoPiece],
                !.currentTurn = Flip(g.currentTurn)]

\* ChessGame.selectPiece returns true exactly when it made a move
Moves(g, row, col) ==
  g.selectedPiece # NoSelection /\ <<row, col>> \in g.validMoves

\* ChessGame.selectPiece(row, col)
selectPiece(g, row, col) ==
  LET piece == getPiece(g.board, row, col)
  IN  IF Moves(g, row, col)
      THEN [movePiece(g, g.selectedPiece.row, g.selectedPiece.col, row, col)
              EXCEPT !.selectedPiece = NoSelection, !.validMoves = {}]
      ELSE IF piece # NoPiece /\ piece.color = g.currentTurn
      THEN [g EXCEPT !.selectedPiece =
                        [row |-> row, col |-> col, piece |-> piece],
                     !.validMoves = getValidMoves(g.board, row, col)]
      ELSE [g EXCEPT !.selectedPiece = NoSelection, !.validMoves = {}]

\* battleArena.battleActive = false, battleFromRow = ... = null
NoBattle ==
  [active |-> FALSE, isAttacker |-> FALSE,
   fromRow |-> -1, fromCol |-> -1, toRow |-> -1, toCol |-> -1,
   attackingPiece |-> NoPiece, defendingPiece |-> NoPiece]

\* --- the messages of the 'game-state' channel ---

\* A moveRequest whose coordinates are missing has present = FALSE.
MoveRequest(fromRow, fromCol, toRow, toCol) ==
  [type |-> "moveRequest", present |-> TRUE,
   fromRow |-> fromRow, fromCol |-> fromCol, toRow |-> toRow, toCol |-> toCol]

GameState(g) ==
  [type |-> "gameState", board |-> g.board, currentTurn |-> g.currentTurn]

StartBattle(attackingPiece, defendingPiece, fromRow, fromCol, toRow, toCol) ==
  [type |-> "startBattle",
   attackingPiece |-> attackingPiece, defendingPiece |-> defendingPiece,
   fromRow |-> fromRow, fromCol |-> fromCol, toRow |-> toRow, toCol |-> toCol]

BattleEnded(attackerWon, b, g) ==
  [type |-> "battleEnded", attackerWon |-> attackerWon,
   fromRow |-> b.fromRow, fromCol |-> b.fromCol,
   toRow |-> b.toRow, toCol |-> b.toCol,
   board |-> g.board, currentTurn |-> g.currentTurn]

ErrorMessage(text) == [type |-> "error", message |-> text]

ConnectedMessage == [type |-> "connected"]

\* --- ghosts ---

\* the last moveRequest the host handled: the game before and after, and
\* what the host sent in reply
NoRequest ==
  [handled |-> FALSE, request |-> MoveRequest(0, 0, 0, 0),
   before |-> NoGame, after |-> NoGame, sent |-> <<>>]

\* the last call of handleBattleEnd: where, its verdict, and the board it left
NoBattleEnd ==
  [ended |-> FALSE, peer |-> "host", attackerWon |-> FALSE,
   battle |-> NoBattle, board |-> <<>>]

\* Neither page has run main.js yet.
InitGame ==
  /\ game = [p \in Peers |-> NoGame]
  /\ battle = [p \in Peers |-> NoBattle]
  /\ pageConnected = [p \in Peers |-> FALSE]
  /\ inbox = [p \in Peers |-> <<>>]
  /\ lastRequest = NoRequest
  /\ lastBattleEnd = NoBattleEnd
  /\ plies = 0

\* The squares the players click.
ClickSquares == {<<6, 4>>, <<5, 4>>, <<4, 4>>, <<1, 3>>, <<3, 3>>}

\* moveRequests that arrive on the channel without having been produced by
\* the guest's click handler: one without coordinates, one naming a move
\* the piece cannot make.
ForeignRequests ==
  {[type |-> "moveRequest", present |-> FALSE,
    fromRow |-> -1, fromCol |-> -1, toRow |-> -1, toCol |-> -1],
   MoveRequest(1, 3, 4, 3)}

\* handleGameMessage, case 'startBattle': the page's battle coordinates and
\* battleArena.startBattle(...)
startBattle(p, message) ==
  [active |-> TRUE,
   isAttacker |-> playerColor(p) = message.attackingPiece.color,
   fromRow |-> message.fromRow, fromCol |-> message.fromCol,
   toRow |-> message.toRow, toCol |-> message.toCol,
   attackingPiece |-> message.attackingPiece,
   defendingPiece |-> message.defendingPiece]

\* inbox after page p took its first message and sent replies to the other
Handled(p, replies) ==
  [q \in Peers |-> IF q = p THEN Tail(inbox[q]) ELSE inbox[q] \o replies]

\* The page runs main.js: const game = new ChessGame(), no battle, not
\* connected.
LoadPage(p) ==
  /\ game[p] = NoGame
  /\ game' = [game EXCEPT ![p] = NewGame]
  /\ UNCHANGED <<battle, pageConnected, inbox, lastRequest, lastBattleEnd, plies>>

\* The onConnectionStateChange callback of main.js with state 'connected':
\* the guest also greets the host.
Connected(p) ==
  /\ game[p] # NoGame
  /\ ~pageConnected[p]
  /\ pageConnected' = [pageConnected EXCEPT ![p] = TRUE]
  /\ inbox' = IF p = "guest"
              THEN [inbox EXCEPT !["host"] = Append(@, ConnectedMessage)]
              ELSE inbox
  /\ UNCHANGED <<game, battle, lastRequest, lastBattleEnd, plies>>

\* The click handler of main.js on the chess board, at page p.
Click(p, row, col) ==
  LET g == game[p]
      prevSelected == g.selectedPiece
      targetPiece == getPiece(g.board, row, col)
      isCapture == /\ targetPiece # NoPiece
                   /\ targetPiece.color # playerColor(p)
                   /\ <<row, col>> \in g.validMoves
      moved == Moves(g, row, col)
      after == selectPiece(g, row, col)
      battleMessage ==
        StartBattle(prevSelected.piece, targetPiece,
                    prevSelected.row, prevSelected.col, row, col)
      sent ==
        IF ~(moved /\ pageConnected[p]) THEN <<>>
        ELSE IF p = "host"
          THEN IF isCapture THEN <<battleMessage>> ELSE <<GameState(after)>>
        ELSE <<MoveRequest(prevSelected.row, prevSelected.col, row, col)>>
  IN  /\ ~battle[p].active
      /\ playerColor(p) = g.currentTurn
      /\ moved => plies < MaxPlies
      /\ game' = [game EXCEPT ![p] = after]
      /\ battle' = IF moved /\ pageConnected[p] /\ p = "host" /\ isCapture
                   THEN [battle EXCEPT ![p] = startBattle(p, battleMessage)]
                   ELSE battle
      /\ inbox' = [inbox EXCEPT ![Other(p)] = @ \o sent]
      /\ plies' = IF moved THEN plies + 1 ELSE plies
      /\ UNCHANGED <<pageConnected, lastRequest, lastBattleEnd>>

\* handleGuestMoveRequest(message) on the game g: the game and battle it
\* leaves, the messages it sends, and whether it threw. getPiece indexes
\* this.board[undefined] when the coordinates are missing.
handleGuestMoveRequest(g, b, message) ==
  LET fromRow == message.fromRow
      fromCol == message.fromCol
      toRow == message.toRow
      toCol == message.toCol
      piece == getPiece(g.board, fromRow, fromCol)
      validMoves == getValidMoves(g.board, fromRow, fromCol)
      targetPiece == getPiece(g.board, toRow, toCol)
      isCapture == targetPiece # NoPiece /\ targetPiece.color # "black"
      selected ==
        [g EXCEPT !.selectedPiece =
                     [row |-> fromRow, col |-> fromCol, piece |-> piece],
                  !.validMoves = validMoves]
      executed == movePiece(selected, fromRow, fromCol, toRow, toCol)
      battleMessage ==
        StartBattle(piece, targetPiece, fromRow, fromCol, toRow, toCol)
  IN  IF g.currentTurn # "black"
      THEN [game |-> g, battle |-> b, raised |-> FALSE,
            sent |-> <<ErrorMessage("Not your turn")>>]
      ELSE IF ~message.present
      THEN [game |-> g, battle |-> b, raised |-> TRUE, sent |-> <<>>]
      ELSE IF piece = NoPiece \/ piece.color # "black"
      THEN [game |-> g, battle |-> b, raised |-> FALSE,
            sent |-> <<ErrorMessage("Invalid piece")>>]
      ELSE IF <<toRow, toCol>> \notin validMoves
      THEN [game |-> [g EXCEPT !.selectedPiece = NoSelection,
                               !.validMoves = {}],
            battle |-> b, raised |-> FALSE,
            sent |-> <<ErrorMessage("Invalid move")>>]
      ELSE IF isCapture
      THEN [game |-> executed, battle |-> startBattle("host", battleMessage),
            raised |-> FALSE, sent |-> <<battleMessage>>]
      ELSE [game |-> executed, battle |-> b, raised |-> FALSE,
            sent |-> <<GameState(executed)>>]

\* First message waiting at page p.
Arrives(p, type) == inbox[p] # <<>> /\ Head(inbox[p]).type = type

\* handleGameMessage, case 'connected': a notification only
ReceiveConnected(p) ==
  /\ Arrives(p, "connected")
  /\ inbox' = Handled(p, <<>>)
  /\ UNCHANGED <<game, battle, pageConnected, lastRequest, lastBattleEnd, plies>>

\* handleGameMessage, case 'moveRequest': only the host validates it; an
\* exception is caught by the channel's onmessage handler.
ReceiveMoveRequest(p) ==
  /\ Arrives(p, "moveRequest")
  /\ IF p = "host"
     THEN LET r == handleGuestMoveRequest(game[p], battle[p], Head(inbox[p]))
          IN  /\ game' = [game EXCEPT ![p] = r.game]
              /\ battle' = [battle EXCEPT ![p] = r.battle]
              /\ inbox' = Handled(p, r.sent)
              /\ lastRequest' =
                   [handled |-> TRUE, request |-> Head(inbox[p]),
                    before |-> game[p], after |-> r.game, sent |-> r.sent]
     ELSE /\ inbox' = Handled(p, <<>>)
          /\ UNCHANGED <<game, battle, lastRequest>>
  /\ UNCHANGED <<pageConnected, lastBattleEnd, plies>>

\* handleGameMessage, case 'gameState': only the guest adopts it
ReceiveGameState(p) ==
  /\ Arrives(p, "gameState")
  /\ game' = IF p = "guest"
             THEN [game EXCEPT ![p].board = Head(inbox[p]).board,
                               ![p].currentTurn = Head(inbox[p]).currentTurn]
             ELSE game
  /\ inbox' = Handled(p, <<>>)
  /\ UNCHANGED <<battle, pageConnected, lastRequest, lastBattleEnd, plies>>

\* handleGameMessage, case 'startBattle'
ReceiveStartBattle(p) ==
  /\ Arrives(p, "startBattle")
  /\ battle' = [battle EXCEPT ![p] = startBattle(p, Head(inbox[p]))]
  /\ inbox' = Handled(p, <<>>)
  /\ UNCHANGED <<game, pageConnected, lastRequest, lastBattleEnd, plies>>

\* handleGameMessage, case 'battleEnded': either page leaves the arena and
\* takes over the sender's board and turn.
ReceiveBattleEnded(p) ==
  /\ Arrives(p, "battleEnded")
  /\ battle' = [battle EXCEPT ![p].active = FALSE]
  /\ game' = [game EXCEPT ![p].board = Head(inbox[p]).board,
                          ![p].currentTurn = Head(inbox[p]).currentTurn]
  /\ inbox' = Handled(p, <<>>)
  /\ UNCHANGED <<pageConnected, lastRequest, lastBattleEnd, plies>>

\* handleGameMessage, case 'error': a notification only
ReceiveError(p) ==
  /\ Arrives(p, "error")
  /\ inbox' = Handled(p, <<>>)
  /\ UNCHANGED <<game, battle, pageConnected, lastRequest, lastBattleEnd, plies>>

\* The board handleBattleEnd leaves: the attacker's origin square is copied
\* onto the contested square when the attacker won, then cleared.
BattleBoard(board, b, attackerWon) ==
  LET copied == IF attackerWon
                THEN [board EXCEPT ![b.toRow][b.toCol] =
                                      board[b.fromRow][b.fromCol]]
                ELSE board
  IN  [copied EXCEPT ![b.fromRow][b.fromCol] = NoPiece]

\* BattleArena.updateBattle sees a health reach 0 at page p and calls
\* onBattleEnd(playerWon), which is handleBattleEnd(playerWon, isAttacker).
\* battleActive stays set until a 'battleEnded' message arrives.
handleBattleEnd(p, playerWon) ==
  LET b == battle[p]
      attackerWon == (b.isAttacker /\ playerWon) \/ (~b.isAttacker /\ ~playerWon)
      after == [game[p] EXCEPT
                  !.board = BattleBoard(game[p].board, b, attackerWon),
                  !.currentTurn = Flip(game[p].currentTurn)]
  IN  /\ b.active
      /\ plies < MaxPlies
      /\ game' = [game EXCEPT ![p] = after]
      /\ inbox' = IF pageConnected[p]
                  THEN [inbox EXCEPT ![Other(p)] =
                          Append(@, BattleEnded(attackerWon, b, after))]
                  ELSE inbox
      /\ lastBattleEnd' =
           [ended |-> TRUE, peer |-> p, attackerWon |-> attackerWon,
            battle |-> b, board |-> after.board]
      /\ plies' = plies + 1
      /\ UNCHANGED <<battle, pageConnected, lastRequest>>

\* A moveRequest reaches the host's channel from outside the guest's click
\* handler.
ForeignMoveRequest(request) ==
  /\ pageConnected["host"]
  /\ plies < MaxPlies
  /\ inbox' = [inbox EXCEPT !["host"] = Append(@, request)]
  /\ plies' = plies + 1
  /\ UNCHANGED <<game, battle, pageConnected, lastRequest, lastBattleEnd>>

\* ------------------------------------------------------- beside the peer
\* The session record of the relay as a value.
Record(offer, answer, hostIce, guestIce, count, out, response) ==
  [hostOffer |-> offer, guestAnswer |-> answer, hostIceCandidates |-> hostIce,
   guestIceCandidates |-> guestIce, posted |-> count, delivered |-> out,
   lastReq |-> response]

\* Client sockets of the room server and the codes generateRoomCode draws from.
Clients == {"ws1", "ws2"}
RoomCodes == {"CHESS-A", "CHESS-B"}
Colors == {"white", "black"}

NoSocket == [readyState |-> "none", roomCode |-> UNDEFINED, playerColor |-> UNDEFINED,
             sent |-> "none"]

\* const gameRooms = new Map()
NoRooms == [roomCode \in {} |-> NULL]

NotSanitized == [kind |-> "not called", list |-> <<>>]

InitSide ==
  /\ receiving = <<>>
  /\ serial = Record(NULL, NULL, <<>>, <<>>, 0, <<>>, NoReq)
  /\ gameRooms = NoRooms
  /\ sockets = [ws \in Clients |-> NoSocket]
  /\ customIceServers = NotSanitized
  /\ sanitizedCustomIce = NotSanitized

Init ==
  /\ isHost \in BOOLEAN
  /\ InitNegotiator
  /\ InitRelay
  /\ InitOrchestrator
  /\ InitGame
  /\ InitSide

\* The handling of descriptions and candidates, and the relay, never read
\* WebRTCConnection.isHost.
InitNeg ==
  /\ isHost = FALSE
  /\ InitNegotiator
  /\ InitRelay
  /\ InitOrchestrator
  /\ InitGame
  /\ InitSide

\* new WebRTCConnection(isHost), stored in NetworkManager.connection
Construct ==
  /\ connection = NULL
  /\ connection' = "object"
  /\ UNCHANGED <<isHost, peerConnection, candVars, chanVars, gameVars, sideVars>>

\* initialize(): the host creates both channels, the guest waits for them.
initialize ==
  /\ connection = "object"
  /\ peerConnection = NULL
  /\ peerConnection' = "open"
  /\ reliableChannel' = IF isHost THEN "connecting" ELSE reliableChannel
  /\ unreliableChannel' = IF isHost THEN "connecting" ELSE unreliableChannel
  /\ channelHandlers' = IF isHost THEN {"game-state", "battle-updates"} ELSE channelHandlers
  /\ UNCHANGED <<connection, isHost, candVars, written, lastSend, inboundVars, gameVars, sideVars>>

\* How a call from outside ended, and whether it came while a
\* setRemoteDescription call was waiting for the transport or flushing.
Arrival(c) ==
  LET o == AddOutcome(c, remoteDescriptionSet, remoteUfrag) IN
    IF o = "queued" /\ \E k \in 1..Len(srd) : srd[k].pc = "awaitTransport" THEN "queuedDuring"
    ELSE IF o = "applied" /\ \E k \in 1..Len(srd) : srd[k].pc = "flushing" THEN "appliedDuringFlush"
    ELSE o

\* addIceCandidate(candidate) called from outside (the poll loop, the application)
addIceCandidate(s) ==
  /\ connection = "object"
  /\ Len(submitted) < MaxCand
  /\ LET c == Cand(Len(submitted) + 1, s) IN
       IF Uninitialized(peerConnection)
       THEN /\ submitted' = Append(submitted, [cand |-> c, arrival |-> "notInitialized"])
            /\ thrown' = NotInitialized("addIceCandidate")
            /\ UNCHANGED <<pendingIceCandidates, applied>>
       ELSE /\ submitted' = Append(submitted, [cand |-> c, arrival |-> Arrival(c)])
            /\ pendingIceCandidates' =
                 AddPending(c, remoteDescriptionSet, remoteUfrag, pendingIceCandidates)
            /\ applied' = AddApplied(c, remoteDescriptionSet, remoteUfrag, applied)
            /\ thrown' = IF AddRaises(AddOutcome(c, remoteDescriptionSet, remoteUfrag),
                                      TransportRejects(c))
                          THEN TransportError("addIceCandidate") ELSE thrown
  /\ UNCHANGED <<connection, isHost, peerConnection, remoteDescriptionSet, remoteUfrag,
                 pcRemoteDescription, srd, chanVars, gameVars, sideVars>>

\* setRemoteDescription(description), up to its first await, as one of at
\* most `calls` calls on the connection
setRemoteDescriptionUpTo(calls, d) ==
  /\ connection = "object"
  /\ IF Uninitialized(peerConnection)
       THEN /\ thrown' = NotInitialized("setRemoteDescription")
            /\ srd' = srd
       ELSE /\ Len(srd) < calls
            /\ srd' = Append(srd, [pc |-> "awaitTransport", desc |-> d, queue |-> <<>>])
            /\ thrown' = thrown
  /\ UNCHANGED <<connection, isHost, peerConnection, remoteDescriptionSet, remoteUfrag,
                 pendingIceCandidates, pcRemoteDescription, applied, submitted, chanVars, gameVars, sideVars>>

\* setRemoteDescription(description), up to its first await
setRemoteDescription(d) == setRemoteDescriptionUpTo(MaxSrd, d)

\* createOffer(): past the check the transport builds the offer and takes it as
\* its local description; no field of the WebRTCConnection changes.
createOffer ==
  /\ connection = "object"
  /\ thrown' = IF Uninitialized(peerConnection) THEN NotInitialized("createOffer") ELSE thrown
  /\ UNCHANGED <<connection, isHost, peerConnection, remoteDescriptionSet, remoteUfrag,
                 pendingIceCandidates, pcRemoteDescription, applied, submitted, srd, chanVars, gameVars, sideVars>>

\* createAnswer(offer), up to its first await: past the check it calls
\* setRemoteDescription(offer).
createAnswer(offer) ==
  IF connection = "object" /\ Uninitialized(peerConnection)
  THEN /\ thrown' = NotInitialized("createAnswer")
       /\ UNCHANGED <<connection, isHost, peerConnection, remoteDescriptionSet, remoteUfrag,
                      pendingIceCandidates, pcRemoteDescription, applied, submitted, srd,
                      chanVars, gameVars, sideVars>>
  ELSE setRemoteDescription(offer)

\* A setRemoteDescription call past its first await: the description is with
\* the transport, the call holds its position and the copy of the queue.
SrdAt(pc, queue) == [pc |-> pc, desc |-> NoDescription, queue |-> queue]

\* The transport applies the description and setRemoteDescription resumes: it
\* marks the description set, extracts the tag and runs
\* flushPendingIceCandidates up to its first await.
SrdResolve(k) ==
  /\ srd[k].pc = "awaitTransport"
  /\ peerConnection = "open"
  /\ LET ufrag == extractRemoteUfrag(srd[k].desc.sdp)
         queue == pendingIceCandidates
     IN
       /\ pcRemoteDescription' = srd[k].desc
       /\ remoteDescriptionSet' = TRUE
       /\ remoteUfrag' = ufrag
       /\ pendingIceCandidates' = <<>>
       /\ IF queue = <<>>
            THEN /\ srd' = [srd EXCEPT ![k] = SrdAt("done", <<>>)]
                 /\ applied' = applied
                 /\ thrown' = thrown
            ELSE /\ applied' = AddApplied(Head(queue), TRUE, ufrag, applied)
                 /\ IF AddRaises(AddOutcome(Head(queue), TRUE, ufrag), TransportRejects(Head(queue)))
                      THEN /\ srd' = [srd EXCEPT ![k] = SrdAt("failed", <<>>)]
                           /\ thrown' = TransportError("addIceCandidate")
                      ELSE /\ srd' = [srd EXCEPT ![k] = SrdAt("flushing", Tail(queue))]
                           /\ thrown' = thrown
  /\ UNCHANGED <<connection, isHost, peerConnection, submitted, chanVars, gameVars, sideVars>>

\* The transport rejects the description: setRemoteDescription throws to its caller.
SrdReject(k) ==
  /\ srd[k].pc = "awaitTransport"
  /\ srd' = [srd EXCEPT ![k] = SrdAt("failed", <<>>)]
  /\ UNCHANGED <<connection, isHost, peerConnection, remoteDescriptionSet, remoteUfrag,
                 pendingIceCandidates, pcRemoteDescription, applied, submitted, thrown, chanVars, gameVars, sideVars>>

\* flushPendingIceCandidates resumes after `await this.addIceCandidate(candidate)`
\* and runs the next iteration of its loop, or returns.
FlushStep(k) ==
  /\ srd[k].pc = "flushing"
  /\ IF srd[k].queue = <<>>
       THEN /\ srd' = [srd EXCEPT ![k].pc = "done"]
            /\ UNCHANGED <<pendingIceCandidates, applied, thrown>>
       ELSE /\ pendingIceCandidates' =
                 AddPending(Head(srd[k].queue), remoteDescriptionSet, remoteUfrag, pendingIceCandidates)
            /\ applied' =
                 AddApplied(Head(srd[k].queue), remoteDescriptionSet, remoteUfrag, applied)
            /\ IF AddRaises(AddOutcome(Head(srd[k].queue), remoteDescriptionSet, remoteUfrag),
                            TransportRejects(Head(srd[k].queue)))
                 THEN /\ srd' = [srd EXCEPT ![k] = SrdAt("failed", <<>>)]
                      /\ thrown' = TransportError("addIceCandidate")
                 ELSE /\ srd' = [srd EXCEPT ![k].queue = Tail(srd[k].queue)]
                      /\ thrown' = thrown
  /\ UNCHANGED <<connection, isHost, peerConnection, remoteDescriptionSet, remoteUfrag,
                 pcRemoteDescription, submitted, chanVars, gameVars, sideVars>>

\* RTCDataChannel.close() on a channel slot
ClosedChannel(ch) == IF ch = NULL THEN NULL ELSE "closed"

\* close()
close ==
  /\ connection = "object"
  /\ reliableChannel' = ClosedChannel(reliableChannel)
  /\ unreliableChannel' = ClosedChannel(unreliableChannel)
  /\ peerConnection' = IF peerConnection = NULL THEN NULL ELSE "closed"
  /\ pendingIceCandidates' = <<>>
  /\ UNCHANGED <<connection, isHost, remoteDescriptionSet, remoteUfrag,
                 pcRemoteDescription, applied, submitted, srd, thrown, written, lastSend,
                 channelHandlers, inboundVars, gameVars, sideVars>>

\* A handler that binds every incoming channel
BoundLabelsAny(label) == {label}

\* The labels the ondatachannel handler calls setupChannelHandlers for.
BoundLabels(label) ==
  IF label = "game-state" \/ label = "battle-updates" THEN {label} ELSE {}

\* The remote side offers a channel (guest only: the host installs no handler).
OnDataChannel(label, state) ==
  /\ peerConnection = "open"
  /\ ~isHost
  /\ reliableChannel' = IF label = "game-state" THEN state ELSE reliableChannel
  /\ unreliableChannel' =
       IF label # "game-state" /\ label = "battle-updates" THEN state ELSE unreliableChannel
  /\ channelHandlers' = channelHandlers \cup BoundLabels(label)
  /\ UNCHANGED <<negVars, written, lastSend, inboundVars, gameVars, sideVars>>

\* The transport moves a channel through its readyState.
NextReadyState(st) ==
  CASE st = "connecting" -> {"open", "closed"}
    [] st = "open" -> {"closing", "closed"}
    [] st = "closing" -> {"closed"}
    [] OTHER -> {}

ReliableTransition ==
  /\ reliableChannel # NULL
  /\ \E st \in NextReadyState(reliableChannel) : reliableChannel' = st
  /\ UNCHANGED <<negVars, unreliableChannel, written, lastSend, channelHandlers, inboundVars, gameVars, sideVars>>

UnreliableTransition ==
  /\ unreliableChannel # NULL
  /\ \E st \in NextReadyState(unreliableChannel) : unreliableChannel' = st
  /\ UNCHANGED <<negVars, reliableChannel, written, lastSend, channelHandlers, inboundVars, gameVars, sideVars>>

\* The body of sendMessage(channel, message); sendRaises: RTCDataChannel.send raises.
SendMessageBody(api, channel, m, sendRaises) ==
  LET target == IF TargetIsUnreliable(channel) THEN unreliableChannel ELSE reliableChannel
      raises == ~m.serializable \/ sendRaises
  IN
    /\ written' =
         IF SendWrites(target, raises)
         THEN Append(written, [label |-> IF TargetIsUnreliable(channel)
                                         THEN "battle-updates" ELSE "game-state",
                               data |-> Stringify(m)])
         ELSE written
    /\ lastSend' = [api |-> api, channel |-> channel, target |-> target,
                    hadConnection |-> TRUE,
                    raised |-> (target # NULL /\ target = "open" /\ raises),
                    result |-> SendResult(target, raises),
                    wrote |-> SendWrites(target, raises)]

\* WebRTCConnection.sendMessage(channel, message)
sendMessage(channel, m, sendRaises) ==
  /\ connection = "object"
  /\ Len(written) < MaxSends
  /\ SendMessageBody("sendMessage", channel, m, sendRaises)
  /\ UNCHANGED <<negVars, reliableChannel, unreliableChannel, channelHandlers, inboundVars, gameVars, sideVars>>

\* NetworkManager.send(type, data, channel = 'game-state')
send(channel, m, sendRaises) ==
  /\ Len(written) < MaxSends
  /\ IF connection = NULL
       THEN /\ lastSend' = [api |-> "send", channel |-> channel, target |-> NULL,
                            hadConnection |-> FALSE, raised |-> FALSE,
                            result |-> "false", wrote |-> FALSE]
            /\ written' = written
       ELSE SendMessageBody("send", IF channel = "undefined" THEN "game-state" ELSE channel,
                            m, sendRaises)
  /\ UNCHANGED <<negVars, reliableChannel, unreliableChannel, channelHandlers, inboundVars, gameVars, sideVars>>

\* ------------------------------------------------------- relay operations
\* start(port): the server listens and records its primary address.
start(ips) ==
  /\ server = NULL
  /\ server' = "listening"
  /\ primaryHostIp' = PrimaryAddress(ips)
  /\ UNCHANGED <<hostOffer, guestAnswer, hostIceCandidates,
                 guestIceCandidates, posted, delivered, lastReq>>

\* A GET /offer that hands the offer out and forgets it
handleGetOfferConsuming ==
  /\ server = "listening"
  /\ lastReq' = IF hostOffer \notin {NULL, UNDEFINED}
                THEN Req("getOffer", 200, hostOffer, <<>>)
                ELSE Req("getOffer", 503, UNDEFINED, <<>>)
  /\ hostOffer' = NULL
  /\ UNCHANGED <<server, primaryHostIp, guestAnswer,
                 hostIceCandidates, guestIceCandidates, posted, delivered>>

\* GET /offer
handleGetOffer ==
  /\ server = "listening"
  /\ lastReq' = IF hostOffer \notin {NULL, UNDEFINED}
                THEN Req("getOffer", 200, hostOffer, <<>>)
                ELSE Req("getOffer", 503, UNDEFINED, <<>>)
  /\ UNCHANGED <<server, primaryHostIp, hostOffer, guestAnswer,
                 hostIceCandidates, guestIceCandidates, posted, delivered>>

\* POST /offer
handlePostOffer(body) ==
  /\ server = "listening"
  /\ IF ParseRaises(body)
       THEN /\ lastReq' = Req("postOffer", 400, UNDEFINED, <<>>)
            /\ UNCHANGED <<hostOffer, guestAnswer, hostIceCandidates, guestIceCandidates>>
       ELSE /\ hostOffer' = body.value
            /\ guestAnswer' = NULL
            /\ hostIceCandidates' = <<>>
            /\ guestIceCandidates' = <<>>
            /\ lastReq' = Req("postOffer", 200, body.value, <<>>)
  /\ UNCHANGED <<server, primaryHostIp, posted, delivered>>

\* setOffer(offer), called in-process by the host
setOffer(offer) ==
  /\ hostOffer' = offer
  /\ lastReq' = Req("setOffer", 200, offer, <<>>)
  /\ UNCHANGED <<server, primaryHostIp, guestAnswer, hostIceCandidates,
                 guestIceCandidates, posted, delivered>>

\* GET /answer
handleGetAnswer ==
  /\ server = "listening"
  /\ lastReq' = IF guestAnswer \notin {NULL, UNDEFINED}
                THEN Req("getAnswer", 200, guestAnswer, <<>>)
                ELSE Req("getAnswer", 503, UNDEFINED, <<>>)
  /\ UNCHANGED <<server, primaryHostIp, hostOffer, guestAnswer,
                 hostIceCandidates, guestIceCandidates, posted, delivered>>

\* A POST /answer that also resets the candidate queues
handlePostAnswerResetting(body) ==
  /\ server = "listening"
  /\ IF ParseRaises(body)
       THEN /\ lastReq' = Req("postAnswer", 400, UNDEFINED, <<>>)
            /\ UNCHANGED <<guestAnswer, hostIceCandidates, guestIceCandidates>>
       ELSE /\ guestAnswer' = body.value
            /\ hostIceCandidates' = <<>>
            /\ guestIceCandidates' = <<>>
            /\ lastReq' = Req("postAnswer", 200, body.value, <<>>)
  /\ UNCHANGED <<server, primaryHostIp, hostOffer, posted, delivered>>

\* POST /answer
handlePostAnswer(body) ==
  /\ server = "listening"
  /\ IF ParseRaises(body)
       THEN /\ lastReq' = Req("postAnswer", 400, UNDEFINED, <<>>)
            /\ UNCHANGED guestAnswer
       ELSE /\ guestAnswer' = body.value
            /\ lastReq' = Req("postAnswer", 200, body.value, <<>>)
  /\ UNCHANGED <<server, primaryHostIp, hostOffer, hostIceCandidates,
                 guestIceCandidates, posted, delivered>>

\* What store.slice(0) would leave in the store
AfterSliceKept(store) == store

\* What store.splice(0, store.length) leaves in the store
AfterSplice(store) == <<>>

\* A GET /ice that reads the host parameter as set whenever it is present
handleGetIceAnyValue(hostParam) ==
  /\ server = "listening"
  /\ LET store == IF hostParam # UNDEFINED THEN guestIceCandidates ELSE hostIceCandidates IN
       /\ lastReq' = Req("getIce", 200, hostParam, store)
       /\ delivered' = delivered \o store
  /\ guestIceCandidates' =
       IF hostParam # UNDEFINED THEN AfterSplice(guestIceCandidates) ELSE guestIceCandidates
  /\ hostIceCandidates' =
       IF hostParam # UNDEFINED THEN hostIceCandidates ELSE AfterSplice(hostIceCandidates)
  /\ UNCHANGED <<server, primaryHostIp, hostOffer, guestAnswer,
                 posted>>

\* GET /ice?host=<hostParam>: returns the other owner's queue and empties it
handleGetIce(hostParam) ==
  /\ server = "listening"
  /\ LET store == IF hostParam = "true" THEN guestIceCandidates ELSE hostIceCandidates IN
       /\ lastReq' = Req("getIce", 200, hostParam, store)
       /\ delivered' = delivered \o store
  /\ guestIceCandidates' =
       IF hostParam = "true" THEN AfterSplice(guestIceCandidates) ELSE guestIceCandidates
  /\ hostIceCandidates' =
       IF hostParam = "true" THEN hostIceCandidates ELSE AfterSplice(hostIceCandidates)
  /\ UNCHANGED <<server, primaryHostIp, hostOffer, guestAnswer,
                 posted>>

\* The address substituted for a .local hostname.
FallbackIp(fromHost, remoteAddress) ==
  IF fromHost THEN primaryHostIp ELSE cleanIp(remoteAddress)

\* POST /ice from a requester whose socket address is remoteAddress
handlePostIce(body, remoteAddress) ==
  /\ server = "listening"
  /\ IF ParseRaises(body)
       THEN /\ lastReq' = [Req("postIce", 400, UNDEFINED, <<>>) EXCEPT !.remote = remoteAddress]
            /\ UNCHANGED <<hostIceCandidates, guestIceCandidates, posted>>
       ELSE LET fromHost == body.isHost = "true"
                candidate == sanitizeCandidate(body.candidate, FallbackIp(fromHost, remoteAddress))
                entry == [rid |-> posted + 1, owner |-> IF fromHost THEN "host" ELSE "guest",
                          cand |-> candidate]
            IN
              /\ hostIceCandidates' =
                   IF fromHost THEN Append(hostIceCandidates, entry) ELSE hostIceCandidates
              /\ guestIceCandidates' =
                   IF fromHost THEN guestIceCandidates ELSE Append(guestIceCandidates, entry)
              /\ posted' = posted + 1
              /\ lastReq' = [Req("postIce", 200, body.isHost, <<entry>>)
                               EXCEPT !.remote = remoteAddress, !.candidate = body.candidate]
  /\ UNCHANGED <<server, primaryHostIp, hostOffer, guestAnswer,
                 delivered>>

\* shutdown(): the server stops accepting requests
shutdown ==
  /\ server' = IF server = NULL THEN NULL ELSE "closed"
  /\ UNCHANGED <<primaryHostIp, hostOffer, guestAnswer, hostIceCandidates,
                 guestIceCandidates, posted, delivered, lastReq>>

\* A step of the relay alone: the other components stand still.
RelayOnly == UNCHANGED <<negVars, chanVars, gameVars, sideVars, orchVars>>

NextRelay ==
  \/ \E ips \in RelayInterfaceLists : start(ips) /\ RelayOnly
  \/ handleGetOffer /\ RelayOnly
  \/ \E body \in SdpBodies(OfferValues) : handlePostOffer(body) /\ RelayOnly
  \/ \E offer \in OfferValues : setOffer(offer) /\ RelayOnly
  \/ handleGetAnswer /\ RelayOnly
  \/ \E body \in SdpBodies(AnswerValues) : handlePostAnswer(body) /\ RelayOnly
  \/ \E hostParam \in {"true", "false", UNDEFINED} : handleGetIce(hostParam) /\ RelayOnly
  \/ \E body \in IceBodies(RelayIceCandidates, {"true", "false"}), remote \in RelayRemoteAddresses :
       posted < MaxPosts /\ handlePostIce(body, remote) /\ RelayOnly

SpecRelay == InitNeg /\ [][NextRelay]_vars

\* The relay serving POST /ice and GET /ice with every shape of candidate.
NextIce ==
  \/ \E ips \in InterfaceLists : start(ips) /\ RelayOnly
  \/ \E hostParam \in {"true", "false"} : handleGetIce(hostParam) /\ RelayOnly
  \/ \E body \in IceBodies(AllIceCandidates, IsHostValues), remote \in RemoteAddresses :
       posted < MaxIcePosts /\ handlePostIce(body, remote) /\ RelayOnly

SpecIce == InitNeg /\ [][NextIce]_vars

\* A step of the connection alone: the other components stand still.
ConnectionOnly == UNCHANGED <<relayVars, orchVars, gameVars, sideVars>>

NextChan ==
  \/ Construct /\ ConnectionOnly
  \/ initialize /\ ConnectionOnly
  \/ \E l \in ChannelLabels, st \in {"connecting", "open"} : OnDataChannel(l, st) /\ ConnectionOnly
  \/ ReliableTransition /\ ConnectionOnly
  \/ UnreliableTransition /\ ConnectionOnly
  \/ \E ch \in ChannelArgs, m \in Messages, r \in BOOLEAN : sendMessage(ch, m, r) /\ ConnectionOnly
  \/ \E ch \in ChannelArgs, m \in Messages, r \in BOOLEAN : send(ch, m, r) /\ ConnectionOnly
  \/ close /\ ConnectionOnly

SpecChan == Init /\ [][NextChan]_vars

NextNeg ==
  \/ Construct /\ ConnectionOnly
  \/ initialize /\ ConnectionOnly
  \/ \E s \in CandShapes : peerConnection # NULL /\ addIceCandidate(s) /\ ConnectionOnly
  \/ \E d \in Descriptions : peerConnection # NULL /\ setRemoteDescription(d) /\ ConnectionOnly
  \/ \E k \in 1..Len(srd) : SrdResolve(k) /\ ConnectionOnly
  \/ \E k \in 1..Len(srd) : SrdReject(k) /\ ConnectionOnly
  \/ \E k \in 1..Len(srd) : FlushStep(k) /\ ConnectionOnly
  \/ close /\ ConnectionOnly

SpecNeg == InitNeg /\ [][NextNeg]_vars

\* The calls a caller can make on a WebRTCConnection in any order, before
\* initialize() as well as after it, with a candidate the transport rejects
\* among the candidates.
CallShapes ==
  { [obj |-> TRUE, candidate |-> <<>>, usernameFragment |-> NULL],
    [obj |-> TRUE, candidate |-> CandMalformed, usernameFragment |-> NULL],
    [obj |-> TRUE, candidate |-> CandIpHost, usernameFragment |-> "abc"],
    [obj |-> TRUE, candidate |-> CandIpHost, usernameFragment |-> "xyz"] }

CallDescriptions == { [type |-> "offer", sdp |-> SdpXyz] }

NextCalls ==
  \/ Construct /\ ConnectionOnly
  \/ initialize /\ ConnectionOnly
  \/ createOffer /\ ConnectionOnly
  \/ \E d \in CallDescriptions : createAnswer(d) /\ ConnectionOnly
  \/ \E d \in CallDescriptions : setRemoteDescription(d) /\ ConnectionOnly
  \/ \E s \in CallShapes : addIceCandidate(s) /\ ConnectionOnly
  \/ \E k \in 1..Len(srd) : SrdResolve(k) /\ ConnectionOnly
  \/ \E k \in 1..Len(srd) : SrdReject(k) /\ ConnectionOnly
  \/ \E k \in 1..Len(srd) : FlushStep(k) /\ ConnectionOnly

SpecCalls == InitNeg /\ [][NextCalls]_vars

\* ------------------------------------------------------------ orchestrator
RECURSIVE Pow(_, _)
Pow(b, n) == IF n = 0 THEN 1 ELSE b * Pow(b, n - 1)

\* base * 1.5 ** i, without the cap
BackoffUncapped(base, i) == (base * Pow(3, i)) \div Pow(2, i)

\* delay * Math.min(1.5 ** i, 3); 1.5 ** i is 3^i / 2^i, and below the cap
\* (i < 3) the product is a whole number for a base that is a multiple of 4.
Backoff(base, i) ==
  IF Pow(3, i) >= 3 * Pow(2, i) THEN 3 * base
  ELSE (base * Pow(3, i)) \div Pow(2, i)

\* A loop that would run one more iteration
LoopContinuesOneMore(i) == i <= maxRetries

\* for (let i = 0; i < maxRetries; i++)
LoopContinues(i) == i < maxRetries

\* The description a stored offer or answer stands for (response.json()).
ParseDescription(v) ==
  [type |-> IF v \in OfferValues THEN "offer" ELSE "answer",
   sdp |-> IF v \in {"offer1", "answer1"} THEN SdpXyz ELSE SdpNoUfrag]

\* The socket address of a request of this peer, as the relay sees it.
OwnAddress == IF isHost THEN <<"::ffff:", "127.0.0.1">> ELSE <<"::ffff:", "10.0.0.7">>

\* The isHost flag / host parameter a peer of the given role sends.
RoleFlag(host) == IF host THEN "true" ELSE "false"

\* The n-th candidate the local transport discovers.
LocalCandidate(n) ==
  [id |-> n, obj |-> TRUE, candidate |-> CandMdnsHost, usernameFragment |-> "abc"]

\* How a request ends: served by the relay, or fetch rejects.
Outcomes == {"served", "failed"}

Request(kind, cand) == [kind |-> kind, cand |-> cand]

RemoveAt(seq, n) == SubSeq(seq, 1, n - 1) \o SubSeq(seq, n + 1, Len(seq))

\* connection?.isConnected()
isConnected ==
  connection # NULL /\ peerConnection = "open" /\ connectionState = "connected"

\* new WebRTCConnection(isHost) followed by `await initialize()`
ConstructAndInitialize ==
  /\ connection' = "object"
  /\ peerConnection' = "open"
  /\ reliableChannel' = IF isHost THEN "connecting" ELSE reliableChannel
  /\ unreliableChannel' = IF isHost THEN "connecting" ELSE unreliableChannel
  /\ channelHandlers' = IF isHost THEN {"game-state", "battle-updates"} ELSE channelHandlers
  /\ UNCHANGED <<isHost, candVars, written, lastSend, inboundVars, gameVars, sideVars>>

\* startIceCandidateExchange(baseUrl): both timers are started
startIceCandidateExchange ==
  /\ pushInterval' = TRUE
  /\ icePollInterval' = "active"

\* startHost(port), up to `await this.signalingServer.start(port)` resolving
startHost(ips) ==
  /\ isHost
  /\ nmPc = "idle"
  /\ signalingServer' = "object"
  /\ start(ips)
  /\ nmPc' = "hostStarted"
  /\ UNCHANGED <<nmError, attempt, offerRequests, sleeps, answerPosts, disconnected,
                 timerVars, reqVars, transportVars, negVars, chanVars, gameVars, sideVars>>

\* startHost: the connection is constructed and initialized, createOffer is called
HostInitialized ==
  /\ nmPc = "hostStarted"
  /\ ConstructAndInitialize
  /\ nmPc' = "offering"
  /\ UNCHANGED <<nmError, attempt, offerRequests, sleeps, answerPosts, signalingServer, disconnected,
                 timerVars, reqVars, transportVars, relayVars>>


\* startHost that starts its timers without publishing the offer
HostOfferCreatedUnpublished(offer) ==
  /\ nmPc = "offering"
  /\ peerConnection = "open"
  /\ answerPollInterval' = "active"
  /\ startIceCandidateExchange
  /\ nmPc' = "running"
  /\ UNCHANGED <<nmError, attempt, offerRequests, sleeps, answerPosts, signalingServer, disconnected,
                 shutdownTimers, answerWaits, reqVars, transportVars, negVars, chanVars, gameVars,
                 sideVars, relayVars>>

\* startHost resumes with the offer: setOffer, waitForAnswer, startIceCandidateExchange
HostOfferCreated(offer) ==
  /\ nmPc = "offering"
  /\ peerConnection = "open"
  /\ setOffer(offer)
  /\ answerPollInterval' = "active"
  /\ startIceCandidateExchange
  /\ nmPc' = "running"
  /\ UNCHANGED <<nmError, attempt, offerRequests, sleeps, answerPosts, signalingServer, disconnected,
                 shutdownTimers, answerWaits, reqVars, transportVars, negVars, chanVars, gameVars, sideVars>>

\* connectToHost(hostIP, port), up to the first fetch of fetchOfferWithRetry
connectToHost ==
  /\ ~isHost
  /\ nmPc = "idle"
  /\ ConstructAndInitialize
  /\ nmPc' = "fetching"
  /\ attempt' = 0
  /\ offerRequests' = offerRequests + 1
  /\ UNCHANGED <<nmError, sleeps, answerPosts, signalingServer, disconnected,
                 timerVars, reqVars, transportVars, relayVars>>

\* fetchOfferWithRetry resumes after `await fetch(baseUrl/offer)`: with an offer
\* it returns and connectToHost calls createAnswer(offer); otherwise it sleeps.
OfferResponse(outcome) ==
  /\ nmPc = "fetching"
  /\ IF outcome = "served"
       THEN /\ handleGetOffer
            /\ IF hostOffer \notin {NULL, UNDEFINED}
                 THEN /\ setRemoteDescription(ParseDescription(hostOffer))
                      /\ nmPc' = "answering"
                      /\ sleeps' = sleeps
                 ELSE /\ nmPc' = "sleeping"
                      /\ sleeps' = Append(sleeps, Backoff(delay, attempt))
                      /\ UNCHANGED <<negVars, chanVars, gameVars, sideVars>>
       ELSE /\ nmPc' = "sleeping"
            /\ sleeps' = Append(sleeps, Backoff(delay, attempt))
            /\ UNCHANGED <<negVars, chanVars, gameVars, sideVars, relayVars>>
  /\ UNCHANGED <<nmError, attempt, offerRequests, answerPosts, signalingServer, disconnected,
                 timerVars, reqVars, transportVars>>

\* fetchOfferWithRetry resumes after the sleep: next iteration, or the throw
SleepDone ==
  /\ nmPc = "sleeping"
  /\ attempt' = attempt + 1
  /\ IF LoopContinues(attempt + 1)
       THEN /\ nmPc' = "fetching"
            /\ offerRequests' = offerRequests + 1
            /\ nmError' = nmError
       ELSE /\ nmPc' = "failed"
            /\ nmError' = "timeout"
            /\ offerRequests' = offerRequests
  /\ UNCHANGED <<sleeps, answerPosts, signalingServer, disconnected, timerVars, reqVars, transportVars,
                 negVars, chanVars, gameVars, sideVars, relayVars>>

\* connectToHost resumes after `await this.connection.createAnswer(offer)`: the
\* answer goes out with POST /answer, or createAnswer threw.
AnswerCreated ==
  /\ nmPc = "answering"
  /\ srd # <<>>
  /\ srd[1].pc \in {"done", "failed"}
  /\ IF srd[1].pc = "done" /\ peerConnection = "open"
       THEN /\ nmPc' = "posting"
            /\ answerPosts' = answerPosts + 1
            /\ nmError' = nmError
       ELSE /\ nmPc' = "failed"
            /\ nmError' = "negotiation"
            /\ answerPosts' = answerPosts
  /\ UNCHANGED <<attempt, offerRequests, sleeps, signalingServer, disconnected, timerVars, reqVars,
                 transportVars, negVars, chanVars, gameVars, sideVars, relayVars>>

\* connectToHost resumes after `await fetch(baseUrl/answer, POST)`: the status
\* of the response is not read; a rejected fetch is thrown to the caller.
AnswerPosted(outcome) ==
  /\ nmPc = "posting"
  /\ IF outcome = "served"
       THEN /\ handlePostAnswer([kind |-> "object", value |-> "answer1"])
            /\ startIceCandidateExchange
            /\ nmPc' = "running"
            /\ nmError' = nmError
       ELSE /\ nmPc' = "failed"
            /\ nmError' = "network"
            /\ UNCHANGED <<pushInterval, icePollInterval, relayVars>>
  /\ UNCHANGED <<attempt, offerRequests, sleeps, answerPosts, signalingServer, disconnected,
                 answerPollInterval, shutdownTimers, answerWaits, reqVars, transportVars,
                 negVars, chanVars, gameVars, sideVars>>

\* A tick that posts only the candidate discovered last
PushTickLatest ==
  /\ pushInterval
  /\ iceCandidates # <<>>
  /\ issued + 1 <= MaxRequests
  /\ inflight' = Append(inflight, Request("postIce", iceCandidates[Len(iceCandidates)]))
  /\ issued' = issued + 1
  /\ UNCHANGED <<pulled, signalingServer, disconnected, flowVars, timerVars, transportVars,
                 negVars, chanVars, gameVars, sideVars, relayVars>>

\* A tick of the push timer: one POST /ice for every candidate discovered so far
PushTick ==
  /\ pushInterval
  /\ iceCandidates # <<>>
  /\ issued + Len(iceCandidates) <= MaxRequests
  /\ inflight' = inflight \o [n \in 1..Len(iceCandidates) |-> Request("postIce", iceCandidates[n])]
  /\ issued' = issued + Len(iceCandidates)
  /\ UNCHANGED <<pulled, signalingServer, disconnected, flowVars, timerVars, transportVars,
                 negVars, chanVars, gameVars, sideVars, relayVars>>

\* A POST /ice of the push timer ends; a rejected fetch is caught and ignored.
PostIceDone(n, outcome) ==
  /\ inflight[n].kind = "postIce"
  /\ IF outcome = "served"
       THEN handlePostIce([kind |-> "object", candidate |-> inflight[n].cand,
                           isHost |-> RoleFlag(isHost)], OwnAddress)
       ELSE UNCHANGED relayVars
  /\ inflight' = RemoveAt(inflight, n)
  /\ UNCHANGED <<pulled, issued, signalingServer, disconnected, flowVars, timerVars, transportVars,
                 negVars, chanVars, gameVars, sideVars>>

\* A tick of the pull timer: GET /ice?host=<isHost>
PullTick ==
  /\ icePollInterval = "active"
  /\ issued < MaxRequests
  /\ inflight' = Append(inflight, Request("getIce", MissingCandidate))
  /\ issued' = issued + 1
  /\ UNCHANGED <<pulled, signalingServer, disconnected, flowVars, timerVars, transportVars,
                 negVars, chanVars, gameVars, sideVars, relayVars>>


\* A pull handler whose catch reports the failure to the caller of connectToHost / startHost
GetIceDoneRaising(n, outcome) ==
  /\ inflight[n].kind = "getIce"
  /\ IF outcome = "served"
       THEN LET store == IF isHost THEN guestIceCandidates ELSE hostIceCandidates IN
              /\ handleGetIce(RoleFlag(isHost))
              /\ pulled' = IF store = <<>> THEN pulled
                           ELSE Append(pulled, [m \in 1..Len(store) |-> store[m].cand])
              /\ icePollInterval' = icePollInterval
              /\ nmError' = nmError
       ELSE /\ icePollInterval' = IF isConnected THEN NULL ELSE icePollInterval
            /\ nmError' = "network"
            /\ UNCHANGED <<pulled, relayVars>>
  /\ inflight' = RemoveAt(inflight, n)
  /\ UNCHANGED <<issued, signalingServer, disconnected, nmPc, attempt, offerRequests, sleeps,
                 answerPosts, answerPollInterval, pushInterval,
                 shutdownTimers, answerWaits, transportVars, negVars, chanVars, gameVars, sideVars>>

\* A GET /ice of the pull timer ends: the candidates of the response are to be
\* applied one by one; a rejected fetch stops the timer if the peers are connected.
GetIceDone(n, outcome) ==
  /\ inflight[n].kind = "getIce"
  /\ IF outcome = "served"
       THEN LET store == IF isHost THEN guestIceCandidates ELSE hostIceCandidates IN
              /\ handleGetIce(RoleFlag(isHost))
              /\ pulled' = IF store = <<>> THEN pulled
                           ELSE Append(pulled, [m \in 1..Len(store) |-> store[m].cand])
              /\ icePollInterval' = icePollInterval
       ELSE /\ icePollInterval' = IF isConnected THEN NULL ELSE icePollInterval
            /\ UNCHANGED <<pulled, relayVars>>
  /\ inflight' = RemoveAt(inflight, n)
  /\ UNCHANGED <<issued, signalingServer, disconnected, flowVars, answerPollInterval, pushInterval,
                 shutdownTimers, answerWaits, transportVars, negVars, chanVars, gameVars, sideVars>>

\* The pull handler's loop: `await this.connection.addIceCandidate(candidate)`
ApplyPulled(b) ==
  /\ addIceCandidate(Head(pulled[b]))
  /\ pulled' = IF Len(pulled[b]) = 1 THEN RemoveAt(pulled, b)
               ELSE [pulled EXCEPT ![b] = Tail(pulled[b])]
  /\ UNCHANGED <<inflight, issued, signalingServer, disconnected, flowVars, timerVars, transportVars,
                 relayVars>>

\* A tick of the answer-poll timer that finds an answer and leaves it there
AnswerTickLeavesAnswer ==
  /\ answerPollInterval = "active"
  /\ signalingServer # NULL
  /\ guestAnswer \notin {NULL, UNDEFINED}
  /\ UNCHANGED vars

\* A tick of the answer-poll timer that finds an answer: it calls
\* setRemoteDescription(answer) and waits for it. The timer is cleared only
\* when a tick resumes, so a tick can fire while an earlier one is waiting.
AnswerTickUpTo(calls) ==
  /\ answerPollInterval = "active"
  /\ signalingServer # NULL
  /\ guestAnswer \notin {NULL, UNDEFINED}
  /\ setRemoteDescriptionUpTo(calls, ParseDescription(guestAnswer))
  /\ answerWaits' = answerWaits \cup {Len(srd) + 1}
  /\ UNCHANGED <<signalingServer, disconnected, flowVars, icePollInterval, answerPollInterval, pushInterval,
                 shutdownTimers, reqVars, transportVars, relayVars>>

\* The tick of the answer-poll timer within the bound on description calls
AnswerTick == AnswerTickUpTo(MaxSrd)

\* The tick resumes after `await setRemoteDescription(answer)`: the timer is
\* cleared, unless setRemoteDescription threw.
AnswerApplied(k) ==
  /\ k \in answerWaits
  /\ srd[k].pc \in {"done", "failed"}
  /\ answerPollInterval' = IF srd[k].pc = "done" THEN NULL ELSE answerPollInterval
  /\ answerWaits' = answerWaits \ {k}
  /\ UNCHANGED <<signalingServer, disconnected, flowVars, icePollInterval, pushInterval, shutdownTimers,
                 reqVars, transportVars, negVars, chanVars, gameVars, sideVars, relayVars>>

\* The local description is set: createOffer / createAnswer has returned.
LocalDescriptionSet == nmPc \in {"posting", "running"}

\* peerConnection.onicecandidate with a candidate
onicecandidate ==
  /\ peerConnection = "open"
  /\ LocalDescriptionSet
  /\ Len(iceCandidates) < MaxLocal
  /\ iceCandidates' = Append(iceCandidates, LocalCandidate(Len(iceCandidates) + 1))
  /\ UNCHANGED <<connectionState, connectedObserved, signalingServer, disconnected, flowVars, timerVars,
                 reqVars, negVars, chanVars, gameVars, sideVars, relayVars>>

\* The states the transport can move to.
NextConnectionState(st) ==
  CASE st = "new" -> {"connecting"}
    [] st = "connecting" -> {"connected", "failed"}
    [] st = "connected" -> {"disconnected"}
    [] st = "disconnected" -> {"connected", "failed"}
    [] OTHER -> {}

\* peerConnection.onconnectionstatechange and the handler the orchestrator
\* registered: the host schedules the shutdown of its relay when connected.
onconnectionstatechange(st) ==
  /\ peerConnection = "open"
  /\ LocalDescriptionSet
  /\ st \in NextConnectionState(connectionState)
  /\ st = "connected" => remoteDescriptionSet /\ nmPc = "running" /\ connectedObserved < MaxConnects
  /\ connectionState' = st
  /\ connectedObserved' = IF st = "connected" THEN connectedObserved + 1 ELSE connectedObserved
  /\ shutdownTimers' = IF st = "connected" /\ signalingServer # NULL
                       THEN shutdownTimers + 1 ELSE shutdownTimers
  /\ UNCHANGED <<iceCandidates, signalingServer, disconnected, flowVars, icePollInterval, answerPollInterval,
                 pushInterval, answerWaits, reqVars, negVars, chanVars, gameVars, sideVars, relayVars>>

\* A timeout whose callback leaves the relay running
ShutdownTimerIdle ==
  /\ shutdownTimers > 0
  /\ shutdownTimers' = shutdownTimers - 1
  /\ UNCHANGED <<signalingServer, disconnected, flowVars, icePollInterval, answerPollInterval,
                 pushInterval, answerWaits, reqVars, transportVars, negVars, chanVars, gameVars, sideVars, relayVars>>

\* setTimeout(() => this.signalingServer.shutdown(), 2000) fires
ShutdownTimerFires ==
  /\ shutdownTimers > 0
  /\ shutdown
  /\ shutdownTimers' = shutdownTimers - 1
  /\ UNCHANGED <<signalingServer, disconnected, flowVars, icePollInterval, answerPollInterval, pushInterval,
                 answerWaits, reqVars, transportVars, negVars, chanVars, gameVars, sideVars>>

\* The other peer, seen from this one through the relay.
OrchOnly == UNCHANGED <<negVars, chanVars, gameVars, sideVars, orchVars>>

\* The other peer has published what precedes its candidate exchange.
RemoteExchanging ==
  IF isHost THEN guestAnswer \notin {NULL, UNDEFINED} ELSE hostOffer \notin {NULL, UNDEFINED}

\* The steps of the orchestrator itself, of its connection and of its timers.
NetworkManagerSteps ==
  \/ \E ips \in RelayInterfaceLists : startHost(ips)
  \/ HostInitialized
  \/ HostOfferCreated("offer1")
  \/ connectToHost
  \/ \E outcome \in Outcomes : OfferResponse(outcome)
  \/ SleepDone
  \/ AnswerCreated
  \/ \E outcome \in Outcomes : AnswerPosted(outcome)
  \/ PushTick
  \/ \E n \in 1..Len(inflight), outcome \in Outcomes : PostIceDone(n, outcome)
  \/ PullTick
  \/ \E n \in 1..Len(inflight), outcome \in Outcomes : GetIceDone(n, outcome)
  \/ \E b \in 1..Len(pulled) : ApplyPulled(b)
  \/ AnswerTick
  \/ \E k \in 1..Len(srd) : AnswerApplied(k)
  \/ onicecandidate
  \/ \E st \in {"connecting", "connected", "disconnected", "failed"} : onconnectionstatechange(st)
  \/ ShutdownTimerFires
  \/ \E k \in 1..Len(srd) : SrdResolve(k) /\ ConnectionOnly
  \/ \E k \in 1..Len(srd) : SrdReject(k) /\ ConnectionOnly
  \/ \E k \in 1..Len(srd) : FlushStep(k) /\ ConnectionOnly

NextOrch ==
  \/ NetworkManagerSteps
  \* the other peer
  \/ \E ips \in RelayInterfaceLists : ~isHost /\ start(ips) /\ OrchOnly
  \/ ~isHost /\ server = "listening" /\ hostOffer = NULL /\ setOffer("offer1") /\ OrchOnly
  \/ ~isHost /\ server = "listening" /\ shutdown /\ OrchOnly
  \/ isHost /\ hostOffer # NULL /\ guestAnswer = NULL
       /\ handlePostAnswer([kind |-> "object", value |-> "answer1"]) /\ OrchOnly
  \/ \E c \in RelayIceCandidates :
       /\ RemoteExchanging
       /\ posted < MaxPosts
       /\ handlePostIce([kind |-> "object", candidate |-> c, isHost |-> RoleFlag(~isHost)],
                        IF isHost THEN <<"::ffff:", "10.0.0.7">> ELSE <<"::ffff:", "127.0.0.1">>)
       /\ OrchOnly
  \/ RemoteExchanging /\ handleGetIce(RoleFlag(~isHost)) /\ OrchOnly

SpecOrch == Init /\ [][NextOrch]_vars

\* clearInterval(handle) on a timer field that is not nulled afterwards
Cleared(handle) == IF handle = NULL THEN NULL ELSE "cleared"

\* disconnect(): clears the pull timer and the answer-poll timer, closes the
\* connection and shuts the relay down; the push timer has no handle to clear.
disconnect ==
  /\ icePollInterval' = Cleared(icePollInterval)
  /\ answerPollInterval' = Cleared(answerPollInterval)
  /\ IF connection # NULL THEN close ELSE UNCHANGED <<negVars, chanVars, gameVars, sideVars>>
  /\ IF signalingServer # NULL THEN shutdown ELSE UNCHANGED relayVars
  /\ disconnected' = TRUE
  /\ UNCHANGED <<signalingServer, flowVars, pushInterval, shutdownTimers, answerWaits,
                 reqVars, transportVars>>

\* startHost resumes from createOffer on a closed connection: createOffer
\* rejects and startHost throws to its caller.
HostOfferFailed ==
  /\ nmPc = "offering"
  /\ peerConnection = "closed"
  /\ nmPc' = "failed"
  /\ nmError' = "negotiation"
  /\ UNCHANGED <<attempt, offerRequests, sleeps, answerPosts, signalingServer, disconnected,
                 timerVars, reqVars, transportVars, negVars, chanVars, gameVars, sideVars, relayVars>>

\* A session that the application may end at any time once it has started it.
\* No task runs between the listening callback of start() and the
\* continuation of startHost.
NextSession ==
  \/ NetworkManagerSteps
  \/ nmPc \notin {"idle", "hostStarted"} /\ disconnect
  \/ HostOfferFailed
  \* the other peer: it publishes its offer or answer and one candidate
  \/ \E ips \in RelayInterfaceLists : ~isHost /\ start(ips) /\ OrchOnly
  \/ ~isHost /\ server = "listening" /\ hostOffer = NULL /\ setOffer("offer1") /\ OrchOnly
  \/ ~isHost /\ server = "listening" /\ shutdown /\ OrchOnly
  \/ isHost /\ hostOffer # NULL /\ guestAnswer = NULL
       /\ handlePostAnswer([kind |-> "object", value |-> "answer1"]) /\ OrchOnly
  \/ /\ RemoteExchanging
     /\ posted < MaxPosts
     /\ handlePostIce([kind |-> "object", candidate |-> IceCandidate(CandMdnsHost),
                       isHost |-> RoleFlag(~isHost)],
                      IF isHost THEN <<"::ffff:", "10.0.0.7">> ELSE <<"::ffff:", "127.0.0.1">>)
     /\ OrchOnly

SpecSession == Init /\ [][NextSession]_vars

\* A timeout that was set fires.
FairSession == SpecSession /\ WF_vars(ShutdownTimerFires)

\* The relay is reachable: a request is served whenever the relay listens.
Reachable(outcome) == (outcome = "served") <=> (server = "listening")

\* fetchOfferWithRetry, connectToHost resume from a fetch to a reachable relay
FetchSettles == \E outcome \in Outcomes : Reachable(outcome) /\ OfferResponse(outcome)

PostSettles == \E outcome \in Outcomes : Reachable(outcome) /\ AnswerPosted(outcome)

\* The transport applies a description it was given.
TransportApplies == \E k \in 1..Len(srd) : SrdResolve(k) /\ ConnectionOnly

\* The handshake of either role with a relay that stays reachable and a
\* transport that accepts the descriptions.
HandshakeSteps ==
  \/ \E ips \in RelayInterfaceLists : startHost(ips)
  \/ HostInitialized
  \/ HostOfferCreated("offer1")
  \/ connectToHost
  \/ FetchSettles
  \/ SleepDone
  \/ AnswerCreated
  \/ PostSettles
  \/ AnswerTick
  \/ \E k \in 1..Len(srd) : AnswerApplied(k)
  \/ TransportApplies
  \* the other peer
  \/ \E ips \in RelayInterfaceLists : ~isHost /\ start(ips) /\ OrchOnly
  \/ ~isHost /\ server = "listening" /\ hostOffer = NULL /\ setOffer("offer1") /\ OrchOnly
  \/ isHost /\ hostOffer # NULL /\ guestAnswer = NULL
       /\ handlePostAnswer([kind |-> "object", value |-> "answer1"]) /\ OrchOnly

\* The candidate exchange and the transport's progress, with the same relay.
ExchangeSteps ==
  \/ PushTick
  \/ \E n \in 1..Len(inflight), outcome \in Outcomes : Reachable(outcome) /\ PostIceDone(n, outcome)
  \/ PullTick
  \/ \E n \in 1..Len(inflight), outcome \in Outcomes : Reachable(outcome) /\ GetIceDone(n, outcome)
  \/ \E b \in 1..Len(pulled) : ApplyPulled(b)
  \/ onicecandidate
  \/ \E st \in {"connecting", "connected", "disconnected", "failed"} : onconnectionstatechange(st)
  \/ ShutdownTimerFires
  \/ \E k \in 1..Len(srd) : FlushStep(k) /\ ConnectionOnly
  \/ /\ RemoteExchanging
     /\ posted < MaxPosts
     /\ handlePostIce([kind |-> "object", candidate |-> IceCandidate(CandMdnsHost),
                       isHost |-> RoleFlag(~isHost)],
                      IF isHost THEN <<"::ffff:", "10.0.0.7">> ELSE <<"::ffff:", "127.0.0.1">>)
     /\ OrchOnly

NextHandshake == HandshakeSteps \/ ExchangeSteps

\* The handshake with an answer-poll timer that ticks again while the
\* transport is still applying the answer.
NextAnswer ==
  \/ HandshakeSteps
  \/ AnswerTickUpTo(MaxAnswerTicks)

SpecAnswer == Init /\ [][NextAnswer]_vars

\* The responder's handshake against a relay whose host publishes a new offer
\* with POST /offer while the responder is still answering the previous one;
\* the host fetches the answer with GET /answer.
NextStale ==
  \/ connectToHost
  \/ \E outcome \in Outcomes : OfferResponse(outcome)
  \/ SleepDone
  \/ TransportApplies
  \/ AnswerCreated
  \/ \E outcome \in Outcomes : AnswerPosted(outcome)
  \* the other peer
  \/ \E ips \in RelayInterfaceLists : start(ips) /\ OrchOnly
  \/ \E offer \in OfferValues :
       handlePostOffer([kind |-> "object", value |-> offer]) /\ OrchOnly
  \/ handleGetAnswer /\ OrchOnly

SpecStale == InitNeg /\ [][NextStale]_vars

\* Fair scheduling of the handshake: the responder connects, fetches settle,
\* sleeps end, the answer-poll timer ticks and the transport answers. Nothing
\* is assumed of the candidate exchange.
FairHandshake ==
  /\ Init
  /\ [][NextHandshake]_vars
  /\ WF_vars(connectToHost)
  /\ WF_vars(FetchSettles)
  /\ WF_vars(SleepDone)
  /\ WF_vars(AnswerCreated)
  /\ WF_vars(PostSettles)
  /\ WF_vars(AnswerTick)
  /\ WF_vars(TransportApplies)

\* A POST /ice of the push timer settles, the relay being reachable.
PostIceSettles ==
  \E n \in 1..Len(inflight), outcome \in Outcomes : Reachable(outcome) /\ PostIceDone(n, outcome)

\* The publishing side of the candidate exchange: the handshake, the discovery
\* of candidates, the push timer and the other peer draining what was stored.
\* A candidate is discovered while the push timer can still post it within
\* MaxRequests; the pull timer, which shares that budget and does not touch
\* what this peer publishes, is left out.
NextPush ==
  \/ HandshakeSteps
  \/ issued + Len(iceCandidates) + 1 <= MaxRequests /\ onicecandidate
  \/ PushTick
  \/ PostIceSettles
  \/ \E st \in {"connecting", "connected", "disconnected", "failed"} : onconnectionstatechange(st)
  \/ ShutdownTimerFires
  \/ RemoteExchanging /\ handleGetIce(RoleFlag(~isHost)) /\ OrchOnly

\* The push timer ticks and its requests settle.
FairPush ==
  /\ Init
  /\ [][NextPush]_vars
  /\ WF_vars(PushTick)
  /\ WF_vars(PostIceSettles)

\* The responder's connection attempt alone: connectToHost with the relay of a
\* host that starts, publishes its offer and shuts down when it pleases.
NextFetch ==
  \/ connectToHost
  \/ \E outcome \in Outcomes : OfferResponse(outcome)
  \/ SleepDone
  \/ AnswerCreated
  \/ \E outcome \in Outcomes : AnswerPosted(outcome)
  \/ \E k \in 1..Len(srd) : SrdResolve(k) /\ ConnectionOnly
  \/ \E k \in 1..Len(srd) : SrdReject(k) /\ ConnectionOnly
  \/ \E ips \in RelayInterfaceLists : start(ips) /\ OrchOnly
  \/ server = "listening" /\ hostOffer = NULL /\ setOffer("offer1") /\ OrchOnly
  \/ server = "listening" /\ shutdown /\ OrchOnly

SpecFetch == InitNeg /\ [][NextFetch]_vars

\* ------------------------------------------------------- inbound events
\* The handlers an application registers.
Handlers == {"h1", "h2"}

\* What arrives on a channel: event.data, and whether JSON.parse accepts it.
InboundData == { [valid |-> TRUE, text |-> "{move}"], [valid |-> FALSE, text |-> "{oops"] }

Event(kind, label, value, handler, outcome) ==
  [kind |-> kind, label |-> label, value |-> value, handler |-> handler, outcome |-> outcome]

\* A registration that keeps the handler registered first
RegisterFirst(old, callback) == IF old = NULL THEN callback ELSE old

\* this.messageCallback = callback / this.connectionStateCallback = callback
Register(old, callback) == callback

\* An onmessage that hands the data to the handler without parsing it
OnMessageOutcomeUnparsed(data, callback) ==
  IF callback = NULL THEN "noCallback" ELSE "delivered"

\* channel.onmessage: JSON.parse inside try/catch, then the handler if one is
\* registered.
OnMessageOutcome(data, callback) ==
  IF ~data.valid THEN "parseError"
  ELSE IF callback = NULL THEN "noCallback"
  ELSE "delivered"

\* onMessage(callback)
onMessage(callback) ==
  /\ connection = "object"
  /\ Len(events) < MaxEvents
  /\ messageCallback' = Register(messageCallback, callback)
  /\ events' = Append(events, Event("onMessage", NULL, NULL, callback, "registered"))
  /\ UNCHANGED <<negVars, reliableChannel, unreliableChannel, written, lastSend,
                 channelHandlers, connectionStateCallback>>

\* onConnectionStateChange(callback)
onConnectionStateChange(callback) ==
  /\ connection = "object"
  /\ Len(events) < MaxEvents
  /\ connectionStateCallback' = Register(connectionStateCallback, callback)
  /\ events' = Append(events, Event("onConnectionStateChange", NULL, NULL, callback, "registered"))
  /\ UNCHANGED <<negVars, reliableChannel, unreliableChannel, written, lastSend,
                 channelHandlers, messageCallback>>

\* The slot a channel with this label is bound to ("null" for a label that is
\* bound to none).
SlotOf(label) ==
  IF label = "game-state" THEN reliableChannel
  ELSE IF label = "battle-updates" THEN unreliableChannel
  ELSE NULL

\* A message arrives on an open channel. A channel setupChannelHandlers was
\* never called on has no onmessage.
ChannelMessage(label, data) ==
  /\ peerConnection = "open"
  /\ Len(events) < MaxEvents
  /\ IF label \in {"game-state", "battle-updates"} THEN SlotOf(label) = "open" ELSE ~isHost
  /\ LET outcome == IF label \in channelHandlers
                    THEN OnMessageOutcome(data, messageCallback) ELSE "noHandler"
     IN events' = Append(events, Event("message", label, data.text,
                                       IF outcome = "delivered" THEN messageCallback ELSE NULL,
                                       outcome))
  /\ UNCHANGED <<negVars, reliableChannel, unreliableChannel, written, lastSend,
                 channelHandlers, messageCallback, connectionStateCallback>>

\* peerConnection.onconnectionstatechange as initialize() installs it: the
\* registered handler, if any, is called with the new state.
ConnectionStateEvent(st) ==
  /\ peerConnection = "open"
  /\ Len(events) < MaxEvents
  /\ st \in NextConnectionState(connectionState)
  /\ connectionState' = st
  /\ events' = Append(events, Event("state", NULL, st, connectionStateCallback,
                                    IF connectionStateCallback = NULL
                                    THEN "noCallback" ELSE "delivered"))
  /\ UNCHANGED <<negVars, reliableChannel, unreliableChannel, written, lastSend,
                 channelHandlers, messageCallback, connectionStateCallback>>

\* A step that moves the transport's connection state and nothing else outside
\* the connection.
TransportOnly ==
  UNCHANGED <<relayVars, signalingServer, disconnected, flowVars, timerVars, reqVars,
              connectedObserved, iceCandidates, gameVars, sideVars>>

NextInbound ==
  \/ Construct /\ ConnectionOnly
  \/ initialize /\ ConnectionOnly
  \/ \E l \in ChannelLabels : OnDataChannel(l, "open") /\ ConnectionOnly
  \/ ReliableTransition /\ ConnectionOnly
  \/ UnreliableTransition /\ ConnectionOnly
  \/ \E h \in Handlers : onMessage(h) /\ ConnectionOnly
  \/ \E h \in Handlers : onConnectionStateChange(h) /\ ConnectionOnly
  \/ \E l \in ChannelLabels, data \in InboundData : ChannelMessage(l, data) /\ ConnectionOnly
  \/ \E st \in {"connecting", "connected", "disconnected", "failed"} :
       ConnectionStateEvent(st) /\ TransportOnly

SpecInbound == Init /\ [][NextInbound]_vars

\* The two pages playing over an ordered, loss-free game-state channel.
GameOnly == UNCHANGED <<negVars, chanVars, relayVars, orchVars, sideVars>>

NextGame ==
  \/ \E p \in Peers : LoadPage(p) /\ GameOnly
  \/ \E p \in Peers : Connected(p) /\ GameOnly
  \/ \E p \in Peers, sq \in ClickSquares : Click(p, sq[1], sq[2]) /\ GameOnly
  \/ \E p \in Peers : ReceiveConnected(p) /\ GameOnly
  \/ \E p \in Peers : ReceiveMoveRequest(p) /\ GameOnly
  \/ \E p \in Peers : ReceiveGameState(p) /\ GameOnly
  \/ \E p \in Peers : ReceiveStartBattle(p) /\ GameOnly
  \/ \E p \in Peers : ReceiveBattleEnded(p) /\ GameOnly
  \/ \E p \in Peers : ReceiveError(p) /\ GameOnly
  \/ \E p \in Peers, playerWon \in BOOLEAN : handleBattleEnd(p, playerWon) /\ GameOnly
  \/ \E request \in ForeignRequests : ForeignMoveRequest(request) /\ GameOnly

SpecGame == InitNeg /\ [][NextGame]_vars

\* A message on the ordered, reliable channel is eventually handled.
Receive ==
  \E p \in Peers :
    \/ ReceiveConnected(p)
    \/ ReceiveMoveRequest(p)
    \/ ReceiveGameState(p)
    \/ ReceiveStartBattle(p)
    \/ ReceiveBattleEnded(p)
    \/ ReceiveError(p)

\* Both pages load and get connected and every message sent is handled; the
\* players click when they like.
FairGame ==
  /\ SpecGame
  /\ WF_vars(\E p \in Peers : LoadPage(p) /\ GameOnly)
  /\ WF_vars(\E p \in Peers : Connected(p) /\ GameOnly)
  /\ WF_vars(Receive /\ GameOnly)

\* ------------------------------------------------- claims on the Negotiator
AppliedCount(i) == Cardinality({ n \in DOMAIN applied : applied[n] = i })

QueuedIds(q) == { q[n].id : n \in DOMAIN q }

\* One setRemoteDescription call was made, it has returned, and the connection
\* was not closed.
SingleSrdDone == Len(srd) = 1 /\ srd[1].pc = "done" /\ peerConnection = "open"

\* The candidate is non-empty and its tag matches the remote tag (or it has none).
Eligible(c) ==
  /\ ~IsEmptyCandidate(c)
  /\ (c.usernameFragment = NULL \/ c.usernameFragment = remoteUfrag)

\* C1: with one setRemoteDescription on an initialized connection, every
\* non-empty candidate whose tag matches the remote description (or that has no
\* tag) is handed to the transport exactly once, whether it arrived before the
\* description, while it was being applied, during the flush or afterwards; and
\* no candidate is ever handed to the transport twice.
C1_AppliedExactlyOnce ==
  /\ \A n \in DOMAIN submitted : AppliedCount(submitted[n].cand.id) <= 1
  /\ SingleSrdDone =>
       \A n \in DOMAIN submitted :
         Eligible(submitted[n].cand) => AppliedCount(submitted[n].cand.id) = 1

\* C1 witness: the call has returned and three eligible candidates are applied,
\* one queued while the transport was applying the description, one submitted
\* during the flush and one queued before the call.
C1_Witness ==
  /\ SingleSrdDone
  /\ Len(applied) = 3
  /\ \E a, b, c \in DOMAIN submitted :
       /\ submitted[a].arrival = "queued"
       /\ submitted[b].arrival = "queuedDuring"
       /\ submitted[c].arrival = "appliedDuringFlush"
       /\ \A n \in {a, b, c} : Eligible(submitted[n].cand)

\* The candidates handed to the transport by the step, as positions of applied'.
NewlyApplied == (DOMAIN applied') \ (DOMAIN applied)

CurrentRemoteTag == extractRemoteUfrag(pcRemoteDescription.sdp)

\* C2: no step hands to the transport a candidate whose usernameFragment
\* differs from the tag extracted from the remote description current at that
\* step, whether the candidate came after the description or was queued before
\* it; and once a description with a tag is set, a candidate carrying that tag
\* is applied (or waits in the running flush).
C2_StaleNeverApplied ==
  /\ [][\A n \in NewlyApplied :
          LET c == submitted'[applied'[n]].cand IN
            (CurrentRemoteTag' # NULL /\ c.usernameFragment # NULL)
              => c.usernameFragment = CurrentRemoteTag']_vars
  /\ []((Len(srd) = 1 /\ remoteDescriptionSet /\ CurrentRemoteTag # NULL /\ peerConnection = "open") =>
          \A n \in DOMAIN submitted :
            (~IsEmptyCandidate(submitted[n].cand)
               /\ submitted[n].cand.usernameFragment = CurrentRemoteTag)
              => \/ AppliedCount(n) = 1
                 \/ n \in QueuedIds(srd[1].queue))

\* C2 witness: with remote tag "xyz" set, a queued "abc" candidate was dropped
\* by the flush, an "abc" candidate was dropped on arrival, and a later "xyz"
\* candidate is applied.
C2_Witness ==
  /\ SingleSrdDone
  /\ remoteUfrag = "xyz"
  /\ Len(submitted) = 3
  /\ submitted[1].cand.usernameFragment = "abc" /\ submitted[1].arrival = "queued"
  /\ submitted[2].cand.usernameFragment = "abc" /\ submitted[2].arrival = "dropped"
  /\ submitted[3].cand.usernameFragment = "xyz" /\ submitted[3].arrival = "applied"
  /\ applied = <<3>>

\* ------------------------------------------------------ claims on the relay
OfferJustPublished ==
  lastReq.op = "setOffer" \/ (lastReq.op = "postOffer" /\ lastReq.status = 200)

\* C3: every publication of an offer, by POST /offer or by setOffer, leaves the
\* relay with no stored answer and with both candidate queues empty.
C3_OfferPublicationResets ==
  OfferJustPublished =>
    /\ guestAnswer \in {NULL, UNDEFINED}
    /\ hostIceCandidates = <<>>
    /\ guestIceCandidates = <<>>

EntryRids(q) == { q[n].rid : n \in DOMAIN q }

NoDuplicateRids(q) == \A m, n \in DOMAIN q : q[m].rid = q[n].rid => m = n

\* C4: a stored candidate is returned by at most one GET /ice response and is
\* not kept once returned; a drain returns the whole queue of the other owner
\* and empties it in the same step, leaving the requester's own queue alone.
C4_DrainExactlyOnce ==
  /\ [](/\ NoDuplicateRids(delivered)
        /\ NoDuplicateRids(hostIceCandidates \o guestIceCandidates)
        /\ EntryRids(delivered) \cap EntryRids(hostIceCandidates \o guestIceCandidates) = {})
  /\ [][(lastReq' # lastReq /\ lastReq'.op = "getIce") =>
          IF lastReq'.arg = "true"
          THEN /\ lastReq'.body = guestIceCandidates
               /\ guestIceCandidates' = <<>>
               /\ hostIceCandidates' = hostIceCandidates
          ELSE /\ lastReq'.body = hostIceCandidates
               /\ hostIceCandidates' = <<>>
               /\ guestIceCandidates' = guestIceCandidates]_vars

\* C4 witness: two drains of the same queue, a POST /ice between them, returned
\* one candidate each.
C4_Witness ==
  /\ Len(delivered) = 2
  /\ delivered[1].owner = delivered[2].owner
  /\ lastReq.op = "getIce"
  /\ lastReq.body = <<delivered[2]>>
  /\ hostIceCandidates = <<>> /\ guestIceCandidates = <<>>

\* The address field of a candidate string is its fifth token.
HasLocalAddress(c) ==
  /\ c.obj
  /\ LET parts == SplitSpace(c.candidate) IN
       /\ Len(parts) >= 5
       /\ parts[5] # <<>>
       /\ parts[5][Len(parts[5])] = ".local"

IceJustStored == lastReq.op = "postIce" /\ lastReq.status = 200

StoredCandidate == lastReq.body[1].cand

\* The stored candidate is the posted one with its address replaced by ip.
AddressReplacedBy(ip) ==
  LET before == SplitSpace(lastReq.candidate.candidate)
      after == SplitSpace(StoredCandidate.candidate)
  IN
    /\ Len(after) = Len(before)
    /\ after[5] = ip
    /\ \A n \in DOMAIN before : n # 5 => after[n] = before[n]
    /\ StoredCandidate.obj = lastReq.candidate.obj
    /\ StoredCandidate.usernameFragment = lastReq.candidate.usernameFragment
    /\ StoredCandidate.id = lastReq.candidate.id

\* Requests as the peers send them: a candidate string of at least six tokens,
\* a requester whose address is known, a relay that knows its primary address.
WellFormedIceRequest ==
  /\ Len(SplitSpace(lastReq.candidate.candidate)) >= 6
  /\ lastReq.remote # NoIp
  /\ primaryHostIp # NoIp

C10_OtherAddressesKept ==
  (IceJustStored /\ lastReq.candidate.obj /\ ~HasLocalAddress(lastReq.candidate))
    => StoredCandidate = lastReq.candidate

\* ---------------------------------------------------- claims on the channels
\* C8: sendMessage and NetworkManager.send never raise; the result is false and
\* nothing is written when the target channel is absent or not open, false when
\* the write raises, true only when a write on an open channel went through
\* without error; send returns false when there is no connection object.
C8_SendNeverThrows ==
  lastSend.api # "none" =>
    /\ lastSend.result \in {"true", "false"}
    /\ (lastSend.target = NULL \/ lastSend.target # "open")
         => (lastSend.result = "false" /\ ~lastSend.wrote)
    /\ lastSend.raised => (lastSend.result = "false" /\ ~lastSend.wrote)
    /\ lastSend.result = "true"
         => (lastSend.target = "open" /\ ~lastSend.raised /\ lastSend.wrote)
    /\ (lastSend.api = "send" /\ ~lastSend.hadConnection)
         => (lastSend.result = "false" /\ ~lastSend.wrote)

\* C8 witness: after a message went out, a send on an open channel raised and
\* returned false.
C8_Witness ==
  /\ Len(written) = 1
  /\ lastSend.api = "send"
  /\ lastSend.target = "open"
  /\ lastSend.raised
  /\ lastSend.result = "false"

\* ----------------------------------------------- claims on the Orchestrator
\* C5: once the orchestrator has observed the connected state and no request
\* of the candidate timers is in flight or being handled any more, it issues
\* no further relay request (neither POST /ice nor GET /ice), in either role.
C5_NoRequestAfterConnected ==
  [][(connectedObserved > 0 /\ inflight = <<>> /\ pulled = <<>>) => issued' = issued]_vars

\* The offer fetch in progress got an offer in this step.
OfferObtained ==
  /\ nmPc = "fetching"
  /\ nmPc' # "fetching"
  /\ lastReq'.op = "getOffer"
  /\ lastReq'.status = 200

\* C6: fetchOfferWithRetry dispatches at most maxRetries GET /offer requests
\* and returns on the first one that yields an offer, after which none is
\* dispatched; when none does, connectToHost has failed with the timeout error
\* after exactly maxRetries requests, no answer was created or published and
\* neither candidate timer was started.
C6_BoundedOfferFetch ==
  /\ [](offerRequests <= maxRetries)
  /\ [][OfferObtained => nmPc' = "answering"]_vars
  /\ [][nmPc \notin {"idle", "sleeping"} => offerRequests' = offerRequests]_vars
  /\ [](nmError = "timeout" =>
          /\ nmPc = "failed"
          /\ offerRequests = maxRetries
          /\ srd = <<>>
          /\ pcRemoteDescription = NoDescription
          /\ answerPosts = 0
          /\ guestAnswer = NULL
          /\ ~pushInterval
          /\ icePollInterval = NULL)

\* Every attempt failed and connectToHost threw the timeout error.
C6_Witness ==
  /\ nmPc = "failed"
  /\ nmError = "timeout"
  /\ offerRequests = maxRetries

\* C7: the delay slept after failed attempt i (i = 0 .. maxRetries-1) is
\* delay * min(1.5^i, 3); the delays never decrease and none exceeds 3 * delay.
C7_BackoffMonotoneCapped ==
  /\ Len(sleeps) <= maxRetries
  /\ \A n \in DOMAIN sleeps :
       /\ sleeps[n] <= 3 * delay
       /\ n > 1 => sleeps[n - 1] <= sleeps[n]
       /\ LET i == n - 1 IN
            IF Pow(3, i) < 3 * Pow(2, i)
            THEN sleeps[n] * Pow(2, i) = delay * Pow(3, i)
            ELSE sleeps[n] = 3 * delay

\* All maxRetries attempts failed: the delays go 1000, 1500, 2250, 3000, ..., 3000.
C7_Witness ==
  /\ Len(sleeps) = maxRetries
  /\ sleeps[1] = delay
  /\ sleeps[3] = 2250
  /\ sleeps[maxRetries] = 3 * delay

\* C11: on the initiator every observation of connected is eventually followed
\* by the shutdown of its relay, and its relay is never shut down unless
\* connected has been observed or disconnect() has been called.
C11_ShutdownFollowsConnected ==
  /\ (isHost /\ connectedObserved > 0) ~> (server = "closed")
  /\ [](isHost /\ server = "closed" => connectedObserved > 0 \/ disconnected)

\* The host observed connected, nobody called disconnect(), and the timer has
\* shut the relay down.
C11_Witness ==
  /\ isHost
  /\ connectedObserved > 0
  /\ ~disconnected
  /\ shutdownTimers = 0
  /\ server = "closed"

\* C12: after disconnect() no relay request is dispatched (GET /offer,
\* POST /answer, POST /ice, GET /ice), no description or candidate is handed to
\* the connection, no timer runs, the connection is closed and the relay, if
\* this peer started it, is shut down, whatever stage the handshake was at.
C12_QuiescentAfterDisconnect ==
  /\ [][disconnected =>
          /\ issued' = issued
          /\ offerRequests' = offerRequests
          /\ answerPosts' = answerPosts
          /\ Len(srd') = Len(srd)
          /\ Len(submitted') = Len(submitted)]_vars
  /\ [](disconnected =>
          /\ ~pushInterval
          /\ icePollInterval # "active"
          /\ answerPollInterval # "active"
          /\ connection # NULL => peerConnection = "closed"
          /\ signalingServer # NULL => server = "closed")

\* The responder has a fetch of the offer ahead of it.
FetchAhead ==
  \/ nmPc \in {"idle", "fetching"}
  \/ nmPc = "sleeping" /\ LoopContinues(attempt + 1)

\* C13: with a reachable relay that holds the initiator's offer, a responder
\* that still has a fetch ahead obtains the offer, publishes its answer and
\* starts its exchange (it does not time out); and an answer stored at the
\* initiator's relay is eventually applied by the answer poll as the remote
\* description. No step of the candidate exchange is required to happen.
C13_HandshakeCompletes ==
  /\ (~isHost /\ server = "listening" /\ hostOffer = "offer1" /\ FetchAhead)
       ~> (nmPc = "running" /\ offerRequests <= maxRetries /\ answerPosts = 1
             /\ guestAnswer = "answer1")
  /\ (isHost /\ guestAnswer = "answer1")
       ~> (remoteDescriptionSet /\ pcRemoteDescription = ParseDescription("answer1"))

\* The responder got the offer after failed attempts and published its answer
\* while no candidate was discovered, pushed, pulled or applied.
C13_Witness ==
  /\ ~isHost
  /\ nmPc = "running"
  /\ offerRequests > 1
  /\ guestAnswer = "answer1"
  /\ issued = 0
  /\ iceCandidates = <<>>
  /\ submitted = <<>>

\* The relay's owner name of this peer.
OwnOwner == IF isHost THEN "host" ELSE "guest"

\* What the relay stored for this peer's owner flag and still holds or has
\* handed out.
OwnStored ==
  LET q == (IF isHost THEN hostIceCandidates ELSE guestIceCandidates) \o delivered IN
    { q[m] : m \in { k \in DOMAIN q : q[k].owner = OwnOwner } }

\* The n-th candidate discovered locally was stored by the relay under this
\* peer's owner flag.
Published(n) == \E e \in OwnStored : e.cand.id = n

Served(ops) == lastReq' # lastReq /\ lastReq'.op \in ops

\* C15: GET /offer and GET /answer answer 503 exactly when nothing is stored
\* and otherwise 200 with the stored value, and change nothing; the stored
\* value is the one of the most recent acknowledged publish (the stored offer
\* changes only by a publish, which stores the value it carried; the stored
\* answer changes only by a publish or by the reset of an offer publish).
C15_FetchReturnsStored ==
  /\ [][Served({"getOffer"}) =>
          /\ lastReq'.status = (IF hostOffer \in {NULL, UNDEFINED} THEN 503 ELSE 200)
          /\ lastReq'.status = 200 => lastReq'.arg = hostOffer
          /\ UNCHANGED <<hostOffer, guestAnswer, hostIceCandidates, guestIceCandidates>>]_vars
  /\ [][Served({"getAnswer"}) =>
          /\ lastReq'.status = (IF guestAnswer \in {NULL, UNDEFINED} THEN 503 ELSE 200)
          /\ lastReq'.status = 200 => lastReq'.arg = guestAnswer
          /\ UNCHANGED <<hostOffer, guestAnswer, hostIceCandidates, guestIceCandidates>>]_vars
  /\ [][Served({"postOffer", "setOffer"}) /\ lastReq'.status = 200 =>
          hostOffer' = lastReq'.arg]_vars
  /\ [][Served({"postAnswer"}) /\ lastReq'.status = 200 => guestAnswer' = lastReq'.arg]_vars
  /\ [][hostOffer' # hostOffer =>
          lastReq'.op \in {"postOffer", "setOffer"} /\ lastReq'.status = 200
          /\ hostOffer' = lastReq'.arg]_vars
  /\ [][guestAnswer' # guestAnswer =>
          \/ lastReq'.op = "postAnswer" /\ lastReq'.status = 200 /\ guestAnswer' = lastReq'.arg
          \/ lastReq'.op = "postOffer" /\ lastReq'.status = 200 /\ guestAnswer' = NULL]_vars

\* A fetch returned the stored offer, which stays stored with the answer and
\* a queued candidate.
C15_Witness ==
  /\ lastReq.op = "getOffer"
  /\ lastReq.status = 200
  /\ lastReq.arg = "offer2"
  /\ hostOffer = "offer2"
  /\ guestAnswer = "answer1"
  /\ guestIceCandidates # <<>>

\* The stored offer, the stored answer and both candidate queues.
Stores == <<hostOffer, guestAnswer, hostIceCandidates, guestIceCandidates>>

\* C16: a publish whose body cannot be parsed, or is JSON without the offer /
\* answer / candidate field, is answered with 400 and leaves the stored offer,
\* the stored answer and both candidate queues unchanged.
C16_MalformedPublishRejected ==
  /\ [][Served({"postOffer", "postAnswer"}) /\ lastReq'.arg = UNDEFINED =>
          lastReq'.status = 400 /\ UNCHANGED Stores]_vars
  /\ [][Served({"postIce"}) /\ lastReq'.candidate = MissingCandidate =>
          lastReq'.status = 400 /\ UNCHANGED Stores]_vars

\* C17: an accepted POST /answer stores the answer it carried and leaves the
\* stored offer and both candidate queues as they were.
C17_AnswerPublishFrame ==
  [][Served({"postAnswer"}) =>
       /\ UNCHANGED <<hostOffer, hostIceCandidates, guestIceCandidates>>
       /\ lastReq'.status = 200 => guestAnswer' = lastReq'.arg]_vars

\* An answer was published over a stored offer and candidates queued by both
\* owners.
C17_Witness ==
  /\ lastReq.op = "postAnswer"
  /\ lastReq.status = 200
  /\ guestAnswer = "answer2"
  /\ hostOffer = "offer1"
  /\ hostIceCandidates # <<>>
  /\ guestIceCandidates # <<>>

\* C18: GET /ice?host=true returns and empties only the queue of the guest,
\* GET /ice with any other host value only the queue of the host; the other
\* queue, the offer and the answer stay, and nothing the relay returns was
\* stored under the role the requester polls with.
C18_DrainOnlyOtherQueue ==
  [][Served({"getIce"}) =>
       IF lastReq'.arg = "true"
       THEN /\ lastReq'.body = guestIceCandidates
            /\ guestIceCandidates' = <<>>
            /\ UNCHANGED <<hostIceCandidates, hostOffer, guestAnswer>>
            /\ \A n \in DOMAIN lastReq'.body : lastReq'.body[n].owner = "guest"
       ELSE /\ lastReq'.body = hostIceCandidates
            /\ hostIceCandidates' = <<>>
            /\ UNCHANGED <<guestIceCandidates, hostOffer, guestAnswer>>
            /\ \A n \in DOMAIN lastReq'.body : lastReq'.body[n].owner = "host"]_vars

\* A poll with host=false drained the host's queue while the guest's own
\* candidate, the offer and the answer stayed.
C18_Witness ==
  /\ lastReq.op = "getIce"
  /\ lastReq.arg = "false"
  /\ lastReq.body # <<>>
  /\ hostIceCandidates = <<>>
  /\ guestIceCandidates # <<>>
  /\ hostOffer = "offer1"
  /\ guestAnswer = "answer1"

\* ------------------------------------------- claims on the Negotiator's calls
\* What a call on the Negotiator can change: the flag, the remote tag, the
\* queue, and what reached the transport.
NegotiatorState ==
  <<remoteDescriptionSet, remoteUfrag, pendingIceCandidates, pcRemoteDescription, applied, srd>>

\* C19: before initialize() a call of createOffer, createAnswer,
\* setRemoteDescription or addIceCandidate raises 'Peer connection not
\* initialized' and changes nothing: no candidate is queued or handed to the
\* transport, no description reaches the transport, and the
\* remote-description flag and the remote tag stay unset.
C19_NotInitializedFails ==
  /\ [][peerConnection = NULL =>
          /\ thrown' # thrown => thrown'.message = NotInitialized(thrown'.api).message
          /\ submitted' # submitted => thrown' = NotInitialized("addIceCandidate")
          /\ UNCHANGED NegotiatorState]_vars
  /\ [](peerConnection = NULL =>
          /\ pendingIceCandidates = <<>>
          /\ applied = <<>>
          /\ srd = <<>>
          /\ ~remoteDescriptionSet
          /\ remoteUfrag = NULL
          /\ pcRemoteDescription = NoDescription)

\* Before initialize(), two candidates were refused and createAnswer was the
\* last call to fail.
C19_Witness ==
  /\ connection = "object"
  /\ peerConnection = NULL
  /\ thrown = NotInitialized("createAnswer")
  /\ Len(submitted) = 2
  /\ \A n \in DOMAIN submitted :
       submitted[n].arrival = "notInitialized" /\ ~IsEmptyCandidate(submitted[n].cand)
  /\ pendingIceCandidates = <<>>

\* No setRemoteDescription call is waiting for the transport or flushing.
NoSrdRunning == \A k \in DOMAIN srd : srd[k].pc \notin {"awaitTransport", "flushing"}

\* C20: on an initialized connection addIceCandidate raises nothing to its
\* caller; an empty candidate is neither queued nor handed to the transport;
\* and once the description is set and the flush has ended, every non-empty
\* candidate with a matching tag (or none) was handed to the transport once,
\* also when it was queued behind a candidate the transport rejected or the
\* flush dropped.
C20_AddNeverRaises ==
  /\ [][peerConnection # NULL /\ thrown' # thrown => thrown'.api # "addIceCandidate"]_vars
  /\ [](\A n \in DOMAIN submitted :
          IsEmptyCandidate(submitted[n].cand) =>
            AppliedCount(n) = 0 /\ n \notin QueuedIds(pendingIceCandidates))
  /\ []((peerConnection = "open" /\ remoteDescriptionSet /\ NoSrdRunning) =>
          \A n \in DOMAIN submitted :
            (Eligible(submitted[n].cand) /\ submitted[n].arrival # "notInitialized")
              => AppliedCount(n) = 1)

\* Three candidates were queued before the description, the second of them one
\* the transport rejects; the flush handed all three to the transport and the
\* call returned.
C20_Witness ==
  /\ SingleSrdDone
  /\ Len(submitted) = 3
  /\ \A n \in DOMAIN submitted : submitted[n].arrival = "queued"
  /\ TransportRejects(submitted[2].cand)
  /\ ~TransportRejects(submitted[3].cand)
  /\ applied = <<1, 2, 3>>
  /\ thrown = NoError

\* C21: once close() has run on an initialized connection the queue of pending
\* candidates is empty and stays empty: no later addIceCandidate call puts a
\* candidate into it.
C21_QueueEmptyAfterClose == peerConnection = "closed" => pendingIceCandidates = <<>>

\* ------------------------------------------------ claims on inbound events
\* The handler of the latest registration of the kind among the first n events
\* ("null" when there is none).
LatestRegistered(kind, n) ==
  LET regs == { m \in 1..n : events[m].kind = kind } IN
    IF regs = {} THEN NULL
    ELSE events[CHOOSE m \in regs : \A k \in regs : k <= m].handler

\* C22: onMessage and onConnectionStateChange hold one handler each: an
\* inbound message or a state transition is handed to the handler registered
\* most recently before it, and to no other.
C22_SingleHandler ==
  \A n \in DOMAIN events :
    /\ (events[n].kind = "message" /\ events[n].outcome \in {"delivered", "noCallback"})
         => events[n].handler = LatestRegistered("onMessage", n)
    /\ events[n].kind = "state"
         => events[n].handler = LatestRegistered("onConnectionStateChange", n)

\* After h1 and then h2 were registered with onMessage, a message was handed
\* to h2.
C22_Witness ==
  /\ Len(events) = 3
  /\ events[1] = Event("onMessage", NULL, NULL, "h1", "registered")
  /\ events[2] = Event("onMessage", NULL, NULL, "h2", "registered")
  /\ events[3].kind = "message"
  /\ events[3].outcome = "delivered"
  /\ events[3].handler = "h2"

\* C25: an inbound message that is not valid JSON reaches no handler and
\* leaves the channel as it is, and a valid message arriving after it on the
\* same channel is handed to the registered handler.
C25_InvalidMessageDropped ==
  /\ [](\A n \in DOMAIN events :
          (events[n].kind = "message" /\ events[n].value = "{oops") =>
            events[n].handler = NULL /\ events[n].outcome \in {"parseError", "noHandler"})
  /\ [][(events' # events /\ events'[Len(events')].kind = "message") =>
          UNCHANGED <<reliableChannel, unreliableChannel, channelHandlers, messageCallback>>]_vars
  /\ [](\A n \in DOMAIN events :
          (/\ events[n].kind = "message"
           /\ events[n].value = "{move}"
           /\ events[n].label \in {"game-state", "battle-updates"}
           /\ LatestRegistered("onMessage", n) # NULL)
            => events[n].outcome = "delivered")

\* With a handler registered, a message that is not JSON arrived on the
\* reliable channel and was dropped, and the valid message after it on the
\* same channel was delivered.
C25_Witness ==
  /\ Len(events) = 3
  /\ events[1].kind = "onMessage"
  /\ events[2] = Event("message", "game-state", "{oops", NULL, "parseError")
  /\ events[3] = Event("message", "game-state", "{move}", events[1].handler, "delivered")
  /\ reliableChannel = "open"

\* ------------------------------------------- claims on the channel slots
BothLabels == {"game-state", "battle-updates"}

\* C23: an initialized host has both channels, each with its handlers; on a
\* guest the reliable slot is filled exactly when a channel labelled
\* game-state came in and the unreliable slot exactly when one labelled
\* battle-updates came in, and no channel with another label has handlers or
\* fills a slot.
C23_ChannelsBoundByLabel ==
  /\ (isHost /\ peerConnection # NULL) =>
        reliableChannel # NULL /\ unreliableChannel # NULL /\ channelHandlers = BothLabels
  /\ ~isHost =>
        /\ channelHandlers \subseteq BothLabels
        /\ (reliableChannel # NULL) <=> ("game-state" \in channelHandlers)
        /\ (unreliableChannel # NULL) <=> ("battle-updates" \in channelHandlers)

\* A guest that was offered the game-state channel only.
C23_Witness ==
  /\ ~isHost
  /\ reliableChannel = "open"
  /\ unreliableChannel = NULL
  /\ channelHandlers = {"game-state"}

\* The label of the channel the last write went to.
LastWritten == written[Len(written)].label

\* C24: a send naming battle-updates writes one message to the unreliable
\* channel only, and a send naming game-state or no channel writes one message
\* to the reliable channel only.
C24_SendRouting ==
  [][written' # written =>
       /\ written' = Append(written, written'[Len(written')])
       /\ lastSend'.channel = "battle-updates" =>
            written'[Len(written')].label = "battle-updates" /\ unreliableChannel = "open"
       /\ lastSend'.channel \in {"game-state", "undefined"} =>
            written'[Len(written')].label = "game-state" /\ reliableChannel = "open"]_vars

\* A message went out on the reliable channel and then one on the unreliable
\* channel, sent with NetworkManager.send.
C24_Witness ==
  /\ Len(written) = 2
  /\ written[1].label = "game-state"
  /\ LastWritten = "battle-updates"
  /\ lastSend.api = "send"
  /\ lastSend.channel = "battle-updates"

\* ------------------------------------------------------------------
\* Claims about the game
\* ------------------------------------------------------------------

\* C28: when a capture battle ends (handleBattleEnd has run at a page), the
\* contested square of that page's board holds the attacking piece if the
\* attacker won and the defending piece if the defender won, and the
\* attacker's origin square is empty.
C28_BattleResultOnBoard ==
  lastBattleEnd.ended =>
    LET b == lastBattleEnd.battle
        board == lastBattleEnd.board
    IN  /\ board[b.toRow][b.toCol] =
             (IF lastBattleEnd.attackerWon THEN b.attackingPiece
                                           ELSE b.defendingPiece)
        /\ board[b.fromRow][b.fromCol] = NoPiece

\* A request the host may apply: it is black's turn on the host's board, the
\* source square holds a black piece and the destination is among that
\* piece's valid moves.
Legal(g, r) ==
  /\ g.currentTurn = "black"
  /\ r.present
  /\ getPiece(g.board, r.fromRow, r.fromCol).color = "black"
  /\ <<r.toRow, r.toCol>> \in getValidMoves(g.board, r.fromRow, r.fromCol)

\* C26: the host applies a guest moveRequest only if it is legal; otherwise
\* the host's board and currentTurn are unchanged and an error message is
\* sent to the guest.
C26_MoveRequestValidated ==
  lastRequest.handled =>
    LET before == lastRequest.before
        after == lastRequest.after
        same == after.board = before.board /\ after.currentTurn = before.currentTurn
    IN  /\ ~same => Legal(before, lastRequest.request)
        /\ ~Legal(before, lastRequest.request) =>
             /\ same
             /\ \E i \in 1..Len(lastRequest.sent) : lastRequest.sent[i].type = "error"

\* The guest's board or turn differs from the host's.
Diverged ==
  \/ game["guest"].board # game["host"].board
  \/ game["guest"].currentTurn # game["host"].currentTurn

\* C27: whenever the guest's board or turn differs from the host's, the
\* guest's state eventually becomes equal to the host's.
C27_GuestConverges == Diverged ~> ~Diverged

\* C29: on the initiator the answer is applied at most once per connection:
\* setRemoteDescription is called at most once, and never when the transport
\* already holds the answer.
C29_AnswerAppliedOnce ==
  /\ [](isHost => Len(srd) <= 1)
  /\ [][(isHost /\ Len(srd') > Len(srd)) => pcRemoteDescription = NoDescription]_vars

\* C30: candidates are handed to the transport in the order in which they
\* were submitted to addIceCandidate (a candidate's id is its position among
\* the submissions).
C30_AppliedInSubmissionOrder ==
  \A i, j \in DOMAIN applied : i < j => applied[i] < applied[j]

\* ------------------------------------------------------------------
\* Claims about the Negotiator's fields between its steps
\* ------------------------------------------------------------------

\* The fields of the Negotiator agree with the description the transport holds.
DescriptionFieldsAgree ==
  /\ remoteUfrag = extractRemoteUfrag(pcRemoteDescription.sdp)
  /\ pendingIceCandidates = <<>>

\* C31: at every suspension point of the Negotiator, if the remote description
\* is marked set then the remote tag is the tag of that description and the
\* pending queue is empty; once the description is marked set it stays so and
\* no candidate is enqueued.
C31_DescriptionFieldsConsistent ==
  /\ [](remoteDescriptionSet => DescriptionFieldsAgree)
  /\ [][remoteDescriptionSet =>
          (remoteDescriptionSet' /\ pendingIceCandidates' = <<>>)]_vars

\* C31 witness: the description carries a tag and is marked set, a candidate
\* queued before it is still waiting in the flush, and a candidate has been
\* submitted during that flush.
C31_Witness ==
  /\ remoteDescriptionSet
  /\ remoteUfrag # NULL
  /\ \E k \in 1..Len(srd) : srd[k].pc = "flushing" /\ srd[k].queue # <<>>
  /\ \E n \in DOMAIN submitted : submitted[n].arrival = "appliedDuringFlush"

\* C32: an answer the relay hands to the initiator was produced in response
\* to the offer currently stored (the responder's answer answers the offer it
\* took as its remote description).
C32_AnswerMatchesStoredOffer ==
  [][(Served({"getAnswer"}) /\ lastReq'.status = 200) =>
       (hostOffer \notin {NULL, UNDEFINED}
        /\ ParseDescription(hostOffer) = pcRemoteDescription)]_vars

\* ------------------------------------------------ the WebSocket room server
\* gameRooms.has(roomCode)
HasRoom(roomCode) == roomCode \in DOMAIN gameRooms

\* gameRooms.set(roomCode, room) on the table rooms
SetRoom(rooms, roomCode, room) ==
  [code \in DOMAIN rooms \cup {roomCode} |-> IF code = roomCode THEN room ELSE rooms[code]]

\* gameRooms.delete(roomCode) on the table rooms
DeleteRoom(rooms, roomCode) == [code \in DOMAIN rooms \ {roomCode} |-> rooms[code]]

\* The room handleCreateRoom stores
NewRoom == [board |-> NULL, currentTurn |-> "white",
            players |-> [color \in Colors |-> NULL], clients |-> {}]

\* room.players[color] of a join message; a colour that is no slot reads undefined.
PlayerAt(room, color) == IF color \in Colors THEN room.players[color] ELSE UNDEFINED

\* broadcastToRoom(roomCode, message) on the sockets socks: every client of the
\* room whose readyState is OPEN is sent the message.
broadcastToRoom(socks, rooms, roomCode, type) ==
  IF roomCode \notin DOMAIN rooms THEN socks
  ELSE [ws \in Clients |->
          IF ws \in rooms[roomCode].clients /\ socks[ws].readyState = "open"
          THEN [socks[ws] EXCEPT !.sent = type] ELSE socks[ws]]

\* wss.on('connection'): a client socket opens
Connection(ws) ==
  /\ sockets[ws].readyState = "none"
  /\ sockets' = [sockets EXCEPT ![ws].readyState = "open"]
  /\ UNCHANGED gameRooms

\* handleCreateRoom(ws, message); roomCode is what generateRoomCode returned
handleCreateRoom(ws, roomCode) ==
  /\ sockets[ws].readyState = "open"
  /\ gameRooms' = SetRoom(gameRooms, roomCode, [NewRoom EXCEPT !.clients = {ws}])
  /\ sockets' = [sockets EXCEPT ![ws].roomCode = roomCode, ![ws].sent = "roomCreated"]

\* handleJoinRoom(ws, message) with message.roomCode = roomCode
handleJoinRoom(ws, roomCode) ==
  /\ sockets[ws].readyState = "open"
  /\ IF ~HasRoom(roomCode)
       THEN /\ sockets' = [sockets EXCEPT ![ws].sent = "error: Room not found"]
            /\ UNCHANGED gameRooms
       ELSE /\ gameRooms' = [gameRooms EXCEPT ![roomCode].clients = @ \cup {ws}]
            /\ sockets' = [sockets EXCEPT ![ws].roomCode = roomCode, ![ws].sent = "roomJoined"]

\* handleJoin(ws, message) with message.color = color
handleJoin(ws, color) ==
  /\ sockets[ws].readyState = "open"
  /\ LET roomCode == sockets[ws].roomCode IN
       IF roomCode = UNDEFINED \/ ~HasRoom(roomCode)
         THEN /\ sockets' = [sockets EXCEPT ![ws].sent = "error: Not in a room"]
              /\ UNCHANGED gameRooms
         ELSE IF PlayerAt(gameRooms[roomCode], color) = NULL
           THEN LET rooms == [gameRooms EXCEPT ![roomCode].players[color] = ws] IN
                  /\ gameRooms' = rooms
                  /\ sockets' = broadcastToRoom([sockets EXCEPT ![ws].playerColor = color],
                                                rooms, roomCode, "playerJoined")
           ELSE /\ sockets' = [sockets EXCEPT ![ws].sent = "error: already taken"]
                /\ UNCHANGED gameRooms

\* ws.on('close'): the socket is closed, then handleDisconnect(ws)
handleDisconnect(ws) ==
  /\ sockets[ws].readyState = "open"
  /\ LET roomCode == sockets[ws].roomCode
         closed == [sockets EXCEPT ![ws].readyState = "closed"]
     IN
       IF roomCode = UNDEFINED \/ ~HasRoom(roomCode)
         THEN /\ sockets' = closed
              /\ UNCHANGED gameRooms
         ELSE LET room == gameRooms[roomCode]
                  left == IF room.players["white"] = ws THEN "white"
                          ELSE IF room.players["black"] = ws THEN "black"
                          ELSE "none"
                  after == [room EXCEPT
                              !.clients = @ \ {ws},
                              !.players = IF left = "none" THEN @
                                          ELSE [@ EXCEPT ![left] = NULL]]
                  rooms == [gameRooms EXCEPT ![roomCode] = after]
              IN
                /\ sockets' = IF left = "none" THEN closed
                              ELSE broadcastToRoom(closed, rooms, roomCode, "playerLeft")
                /\ gameRooms' = IF after.clients = {} THEN DeleteRoom(rooms, roomCode)
                                ELSE rooms

\* A step of the room server alone: the other components stand still.
RoomsOnly ==
  UNCHANGED <<negVars, chanVars, relayVars, orchVars, gameVars, wireVars, iceVars>>

NextRooms ==
  \/ \E ws \in Clients : Connection(ws) /\ RoomsOnly
  \/ \E ws \in Clients, roomCode \in RoomCodes : handleCreateRoom(ws, roomCode) /\ RoomsOnly
  \/ \E ws \in Clients, roomCode \in RoomCodes : handleJoinRoom(ws, roomCode) /\ RoomsOnly
  \/ \E ws \in Clients, color \in Colors \cup {"red"} : handleJoin(ws, color) /\ RoomsOnly
  \/ \E ws \in Clients : handleDisconnect(ws) /\ RoomsOnly

SpecRooms == InitNeg /\ [][NextRooms]_vars

\* C38: a colour slot of a room never refers to a disconnected client: a join
\* for an occupied colour is refused with an error and leaves the slot alone,
\* and a disconnect releases every slot the client held.
C38_SlotsHeldByConnected ==
  /\ [](\A roomCode \in DOMAIN gameRooms : \A color \in Colors :
          gameRooms[roomCode].players[color] # NULL =>
            sockets[gameRooms[roomCode].players[color]].readyState = "open")
  /\ [][\A roomCode \in DOMAIN gameRooms \cap DOMAIN gameRooms' : \A color \in Colors :
          gameRooms[roomCode].players[color] # NULL =>
            gameRooms'[roomCode].players[color] \in {NULL, gameRooms[roomCode].players[color]}]_vars

\* C39: every room in the table has at least one connected client, and a
\* client belongs to the client set of at most one room.
C39_RoomsHaveConnectedClient ==
  /\ \A roomCode \in DOMAIN gameRooms :
       \E ws \in gameRooms[roomCode].clients : sockets[ws].readyState = "open"
  /\ \A ws \in Clients :
       Cardinality({roomCode \in DOMAIN gameRooms : ws \in gameRooms[roomCode].clients}) <= 1

\* ------------------------------------------------------ sanitizeIceServers
\* Strings are sequences of characters.
MaxServers == 2
MaxUrls == 2

UrlTurn == <<"t","u","r","n",":","h">>
UrlTurnCapital == <<"T","u","r","n",":","h">>
UrlStun == <<"s","t","u","n",":","h">>
UrlStunHost == <<"s","t","u","n",":","s","t","u","n",".","h">>
UrlTurnsTcp ==
  <<"t","u","r","n","s",":","h","?","t","r","a","n","s","p","o","r","t","=","t","c","p">>
UrlTurnSpace == <<"t","u","r","n",":","h"," ","h">>
UrlTurnAngle == <<"t","u","r","n",":","<","h",">">>
UrlHttp == <<"h","t","t","p",":","h">>

TransportTcp == <<"t","r","a","n","s","p","o","r","t","=","t","c","p">>

\* An entry of urls: a string, or another value with the text String(u) gives.
Str(text) == [type |-> "string", text |-> text]
UrlEntries ==
  { Str(u) : u \in {UrlTurn, UrlTurnCapital, UrlStun, UrlStunHost, UrlTurnsTcp,
                    UrlTurnSpace, UrlTurnAngle, UrlHttp} }
  \cup { [type |-> "array", text |-> UrlStun] }

\* server.urls: missing, one entry, or an array of entries
UrlsValues ==
  { [shape |-> "missing", list |-> <<>>] }
  \cup { [shape |-> "single", list |-> <<u>>] : u \in UrlEntries }
  \cup { [shape |-> "array", list |-> l] :
           l \in UNION { [1..n -> UrlEntries] : n \in 0..MaxUrls } }

\* An entry of the server list: null, or an object with urls and a username
IceServerValues ==
  { [kind |-> "null", urls |-> [shape |-> "missing", list |-> <<>>], username |-> "none"] }
  \cup { [kind |-> "object", urls |-> u, username |-> "user"] : u \in UrlsValues }

\* The servers argument: undefined, an object that is no array, or an array
ServersValues ==
  { [kind |-> "undefined", list |-> <<>>], [kind |-> "object", list |-> <<>>] }
  \cup { [kind |-> "array", list |-> l] :
           l \in UNION { [1..n -> IceServerValues] : n \in 0..MaxServers } }

\* toLowerCase on the letters the inputs use
Lower(ch) ==
  CASE ch = "T" -> "t" [] ch = "U" -> "u" [] ch = "R" -> "r" [] ch = "N" -> "n"
    [] ch = "S" -> "s" [] OTHER -> ch

toLowerCase(text) == [i \in 1..Len(text) |-> Lower(text[i])]

\* String.prototype.trim
RECURSIVE trim(_)
trim(text) ==
  IF text = <<>> THEN text
  ELSE IF Head(text) = " " THEN trim(Tail(text))
  ELSE IF text[Len(text)] = " " THEN trim(SubSeq(text, 1, Len(text) - 1))
  ELSE text

\* text.includes(part)
includes(text, part) ==
  \E i \in 0..(Len(text) - Len(part)) : SubSeq(text, i + 1, i + Len(part)) = part

\* The characters the class [^\\s<>] of the regular expressions leaves out: in a
\* regular expression literal \\ is a backslash and s is the letter, so the class
\* excludes the backslash, the letter s and the angle brackets; with the i flag
\* the letter is excluded in both cases.
ExcludedClass(ignoreCase) ==
  {"\\", "s", "<", ">"} \cup (IF ignoreCase THEN {"S"} ELSE {})

\* /^<first>urns?:[^\\s<>]+$/ where first is the set the first letter is taken
\* from and ignoreCase the i flag
SchemeTest(first, rest, ignoreCase, text) ==
  LET fold(ch) == IF ignoreCase THEN Lower(ch) ELSE ch IN
    \E k \in {Len(rest) + 1, Len(rest) + 2} :
      /\ Len(text) > k + 1
      /\ fold(text[1]) \in first
      /\ [i \in 1..Len(rest) |-> fold(text[i + 1])] = rest
      /\ (k = Len(rest) + 2 => fold(text[k]) = "s")
      /\ text[k + 1] = ":"
      /\ \A i \in (k + 2)..Len(text) : text[i] \notin ExcludedClass(ignoreCase)

\* /^turns?:[^\\s<>]+$/i.test(u) || /^stuns?:[^\\s<>]+$/i.test(u)
UrlTest(text) ==
  \/ SchemeTest({"t"}, <<"u","r","n">>, TRUE, text)
  \/ SchemeTest({"s"}, <<"t","u","n">>, TRUE, text)

\* /^turns?:/i.test(u)
IsTurn(text) ==
  /\ Len(text) >= 5
  /\ toLowerCase(SubSeq(text, 1, 4)) = <<"t","u","r","n">>
  /\ \/ text[5] = ":"
     \/ Len(text) >= 6 /\ Lower(text[5]) = "s" /\ text[6] = ":"

\* typeof u === 'string' && /^[tT]urns?:[^\\s<>]+$/.test(u) || /^[sS]tuns?:[^\\s<>]+$/.test(u)
UrlTestEarlier(u) ==
  \/ u.type = "string" /\ SchemeTest({"t", "T"}, <<"u","r","n">>, FALSE, u.text)
  \/ SchemeTest({"s", "S"}, <<"t","u","n">>, FALSE, u.text)

\* Array.prototype.filter
Filter(list, Keep(_)) == SelectSeq(list, Keep)

\* The elements of an array
Range(list) == { list[i] : i \in 1..Len(list) }

\* !entry || !server.urls: null, urls missing, or urls the empty string
SkipsServer(entry) ==
  \/ entry.kind = "null"
  \/ entry.urls.shape = "missing"
  \/ entry.urls.shape = "single" /\ entry.urls.list[1] = Str(<<>>)

\* The urls one entry keeps in sanitizeIceServers (lines 843-868)
KeptUrls(entry) ==
  LET urls == entry.urls.list
      mapped == [i \in 1..Len(urls) |->
                   IF urls[i].type = "string" THEN trim(urls[i].text) ELSE <<>>]
      Valid(u) == u # <<>> /\ UrlTest(u)
      validUrls == Filter(mapped, Valid)
      Tcp(u) == includes(toLowerCase(u), TransportTcp)
      NotTcp(u) == ~Tcp(u)
      turnUrls == Filter(validUrls, IsTurn)
      kept == IF turnUrls # <<>> THEN Filter(turnUrls, Tcp) \o Filter(turnUrls, NotTcp)
              ELSE validUrls
  IN [i \in 1..Len(kept) |-> Str(kept[i])]

\* The urls one entry keeps in the earlier sanitizeIceServers (lines 279-285);
\* an entry that is kept is kept as it is.
KeptUrlsEarlier(entry) == Filter(entry.urls.list, UrlTestEarlier)

\* normalized after the loop over servers
Normalized(list, Kept(_)) ==
  LET urls == [i \in 1..Len(list) |->
                 IF SkipsServer(list[i]) THEN <<>> ELSE Kept(list[i])]
      entries == [i \in 1..Len(list) |-> [username |-> list[i].username, urls |-> urls[i]]]
  IN Filter(entries, LAMBDA e : e.urls # <<>>)

NullResult == [kind |-> "null", list |-> <<>>]

\* sanitizeIceServers(servers), lines 837-874
sanitizeIceServers(servers) ==
  IF servers.kind # "array" THEN NullResult
  ELSE LET normalized == Normalized(servers.list, KeptUrls) IN
         IF Len(normalized) > 0 THEN [kind |-> "array", list |-> normalized]
         ELSE NullResult

\* sanitizeIceServers(servers), lines 271-295
sanitizeIceServersEarlier(servers) ==
  IF servers.kind # "array" THEN NullResult
  ELSE LET normalized == Normalized(servers.list, KeptUrlsEarlier) IN
         IF Len(normalized) > 0 THEN [kind |-> "array", list |-> normalized]
         ELSE NullResult

\* The call of sanitizeIceServers in the constructor
Sanitize(servers) ==
  /\ customIceServers = NotSanitized
  /\ customIceServers' = [variant |-> "later", servers |-> servers]
  /\ sanitizedCustomIce' = sanitizeIceServers(servers)

\* The call of the earlier sanitizeIceServers in the constructor
SanitizeEarlier(servers) ==
  /\ customIceServers = NotSanitized
  /\ customIceServers' = [variant |-> "earlier", servers |-> servers]
  /\ sanitizedCustomIce' = sanitizeIceServersEarlier(servers)

IceOnly ==
  UNCHANGED <<negVars, chanVars, relayVars, orchVars, gameVars, wireVars, roomVars>>

NextSanitize ==
  \/ \E servers \in ServersValues : Sanitize(servers) /\ IceOnly
  \/ \E servers \in ServersValues : SanitizeEarlier(servers) /\ IceOnly

SpecSanitize == InitNeg /\ [][NextSanitize]_vars

\* A URL the operator may supply: a string with a stun, stuns, turn or turns
\* scheme, something after the colon, and no whitespace or angle bracket.
AcceptedUrl(u) ==
  /\ u.type = "string"
  /\ \E scheme \in {<<"s","t","u","n">>, <<"s","t","u","n","s">>,
                    <<"t","u","r","n">>, <<"t","u","r","n","s">>} :
       /\ Len(u.text) > Len(scheme) + 1
       /\ toLowerCase(SubSeq(u.text, 1, Len(scheme))) = scheme
       /\ u.text[Len(scheme) + 1] = ":"
  /\ \A i \in 1..Len(u.text) : u.text[i] \notin {" ", "<", ">"}

\* The accepted URLs of one entry entry
AcceptedOf(entry) ==
  IF SkipsServer(entry) THEN {}
  ELSE { u \in Range(entry.urls.list) : AcceptedUrl(u) }

\* C40: the result holds, entry by entry, exactly the accepted URLs of the
\* servers that have one; it is null when no entry has one.
C40_KeepsExactlyAcceptedUrls ==
  customIceServers # NotSanitized =>
    LET servers == customIceServers.servers
        expected == IF servers.kind # "array" THEN <<>>
                    ELSE Filter([i \in 1..Len(servers.list) |-> AcceptedOf(servers.list[i])],
                                LAMBDA s : s # {})
        got == [i \in 1..Len(sanitizedCustomIce.list) |->
                  Range(sanitizedCustomIce.list[i].urls)]
    IN /\ got = expected
       /\ sanitizedCustomIce.kind = (IF expected = <<>> THEN "null" ELSE "array")

\* ------------------------------------------- request bodies in transit
\* The relay reads a POST body in 'data' events and serves the request in the
\* 'end' event; other requests are served between the events of one request.
MaxOpen == 2
MaxChunks == 2

GarbageSdp == [kind |-> "garbage", value |-> UNDEFINED]
GarbageIce == [kind |-> "garbage", candidate |-> MissingCandidate, isHost |-> UNDEFINED]

\* The POST requests of both peers: route, body as the client wrote it, socket address
WireRequests ==
  { [op |-> "postOffer", sent |-> [kind |-> "object", value |-> v], remote |-> NoIp] :
      v \in OfferValues }
  \cup { [op |-> "postAnswer", sent |-> [kind |-> "object", value |-> "answer1"],
          remote |-> NoIp] }
  \cup { [op |-> "postIce", sent |-> b, remote |-> r] :
           b \in IceBodies({IceCandidate(CandIpHost)}, {"true", "false"}) \ {GarbageIce},
           r \in RelayRemoteAddresses }

\* body += chunk in the handler of every request in progress (one buffer for all)
OnDataShared(open, k) ==
  [j \in 1..Len(open) |->
     [open[j] EXCEPT !.body = Append(@, <<open[k].tag, open[k].got + 1>>),
                     !.got = IF j = k THEN @ + 1 ELSE @]]

\* req.on('data', chunk => { body += chunk; }) of request k: the chunk goes to
\* the body variable of that request's handler call
OnData(open, k) ==
  [open EXCEPT ![k].body = Append(@, <<open[k].tag, open[k].got + 1>>),
               ![k].got = @ + 1]

\* JSON.parse(body): the body parses to what was sent when it holds exactly the
\* chunks of the request, in order; anything else is no JSON.
ParseBody(request) ==
  IF request.body = [i \in 1..request.parts |-> <<request.tag, i>>] THEN request.sent
  ELSE IF request.op = "postIce" THEN GarbageIce
  ELSE GarbageSdp

\* The session record after one request is served with no other request in
\* progress; request.sent is the body, request.arg the host parameter of GET /ice.
ServeAlone(rec, request) ==
  CASE request.op = "postOffer" ->
         IF ParseRaises(request.sent)
         THEN [rec EXCEPT !.lastReq = Req("postOffer", 400, UNDEFINED, <<>>)]
         ELSE Record(request.sent.value, NULL, <<>>, <<>>, rec.posted, rec.delivered,
                     Req("postOffer", 200, request.sent.value, <<>>))
    [] request.op = "postAnswer" ->
         IF ParseRaises(request.sent)
         THEN [rec EXCEPT !.lastReq = Req("postAnswer", 400, UNDEFINED, <<>>)]
         ELSE [rec EXCEPT !.guestAnswer = request.sent.value,
                          !.lastReq = Req("postAnswer", 200, request.sent.value, <<>>)]
    [] request.op = "postIce" ->
         IF ParseRaises(request.sent)
         THEN [rec EXCEPT !.lastReq = [Req("postIce", 400, UNDEFINED, <<>>)
                                         EXCEPT !.remote = request.remote]]
         ELSE LET fromHost == request.sent.isHost = "true"
                  stored == [rid |-> rec.posted + 1,
                             owner |-> IF fromHost THEN "host" ELSE "guest",
                             cand |-> sanitizeCandidate(request.sent.candidate,
                                                        FallbackIp(fromHost, request.remote))]
              IN [rec EXCEPT
                    !.hostIceCandidates = IF fromHost THEN Append(@, stored) ELSE @,
                    !.guestIceCandidates = IF fromHost THEN @ ELSE Append(@, stored),
                    !.posted = @ + 1,
                    !.lastReq = [Req("postIce", 200, request.sent.isHost, <<stored>>)
                                   EXCEPT !.remote = request.remote,
                                          !.candidate = request.sent.candidate]]
    [] request.op = "getIce" ->
         LET store == IF request.arg = "true" THEN rec.guestIceCandidates
                      ELSE rec.hostIceCandidates
         IN [rec EXCEPT
               !.guestIceCandidates = IF request.arg = "true" THEN <<>> ELSE @,
               !.hostIceCandidates = IF request.arg = "true" THEN @ ELSE <<>>,
               !.delivered = @ \o store,
               !.lastReq = Req("getIce", 200, request.arg, store)]

\* The smallest tag no request in progress carries
FreeTag == CHOOSE t \in 1..(MaxOpen + 1) :
             /\ \A k \in 1..Len(receiving) : receiving[k].tag # t
             /\ \A u \in 1..(t - 1) : \E k \in 1..Len(receiving) : receiving[k].tag = u

\* Candidates stored plus candidates of POST /ice requests in progress
IcePending == Cardinality({k \in 1..Len(receiving) : receiving[k].op = "postIce"})

\* A POST request reaches its handler, which registers the two listeners
RequestArrives(request, parts) ==
  /\ server = "listening"
  /\ Len(receiving) < MaxOpen
  /\ request.op = "postIce" => posted + IcePending < MaxPosts
  /\ receiving' = Append(receiving,
                         [op |-> request.op, sent |-> request.sent, remote |-> request.remote,
                          parts |-> parts, tag |-> FreeTag, got |-> 0, body |-> <<>>])
  /\ UNCHANGED <<relayVars, serial>>

\* 'data' of request k
RequestData(k) ==
  /\ receiving[k].got < receiving[k].parts
  /\ receiving' = OnData(receiving, k)
  /\ UNCHANGED <<relayVars, serial>>

\* 'end' of request k: the handler parses its body and serves the request
RequestEnd(k) ==
  /\ receiving[k].got = receiving[k].parts
  /\ LET request == receiving[k] IN
       /\ CASE request.op = "postOffer" -> handlePostOffer(ParseBody(request))
            [] request.op = "postAnswer" -> handlePostAnswer(ParseBody(request))
            [] request.op = "postIce" -> handlePostIce(ParseBody(request), request.remote)
       /\ serial' = ServeAlone(serial, request)
  /\ receiving' = RemoveAt(receiving, k)

\* GET /ice, served in one step
Drain(hostParam) ==
  /\ handleGetIce(hostParam)
  /\ serial' = ServeAlone(serial, [op |-> "getIce", arg |-> hostParam])
  /\ UNCHANGED receiving

WireOnly == UNCHANGED <<negVars, chanVars, gameVars, orchVars, roomVars, iceVars>>

NextWire ==
  \/ \E ips \in RelayInterfaceLists : start(ips) /\ UNCHANGED wireVars /\ WireOnly
  \/ \E request \in WireRequests, parts \in 1..MaxChunks :
       RequestArrives(request, parts) /\ WireOnly
  \/ \E k \in 1..Len(receiving) : RequestData(k) /\ WireOnly
  \/ \E k \in 1..Len(receiving) : RequestEnd(k) /\ WireOnly
  \/ \E hostParam \in {"true", "false"} : Drain(hostParam) /\ WireOnly

SpecWire == InitNeg /\ [][NextWire]_vars

\* The entries the session holds or has returned
Held == hostIceCandidates \o guestIceCandidates \o delivered

\* C33: whatever the interleaving of the requests of both peers, the session
\* record and every response are those of the same requests served one at a
\* time in the order they ended, and no stored candidate is held or returned
\* twice.
C33_RequestsSerialize ==
  /\ Record(hostOffer, guestAnswer, hostIceCandidates, guestIceCandidates, posted,
            delivered, lastReq) = serial
  /\ \A i, j \in 1..Len(Held) : Held[i].rid = Held[j].rid => i = j

\* A candidate publish is halfway through its body while a drain has just
\* returned an earlier candidate and an offer publish, arrived later, has its
\* whole body.
C33_Witness ==
  /\ Len(receiving) = 2
  /\ receiving[1].op = "postIce" /\ receiving[1].parts = 2 /\ receiving[1].got = 1
  /\ receiving[2].op = "postOffer" /\ receiving[2].got = receiving[2].parts
  /\ lastReq.op = "getIce" /\ lastReq.body # <<>>

\* A timer of the NetworkManager runs, or one of its requests or ticks has been issued.
Exchanging == pushInterval \/ icePollInterval # NULL \/ issued > 0

\* C34: the steps of an attempt happen in the role's order. The initiator polls
\* for the answer and exchanges candidates only once its offer is in the relay;
\* the responder creates and posts its answer only after it fetched the offer
\* and gave it to the connection, and exchanges candidates only once its
\* answer is in the relay.
C34_StepsInOrder ==
  /\ isHost /\ (Exchanging \/ answerPollInterval # NULL \/ answerWaits # {})
       => hostOffer \notin {NULL, UNDEFINED} /\ nmPc = "running"
  /\ ~isHost /\ (nmPc \in {"answering", "posting", "running"} \/ answerPosts > 0)
       => /\ offerRequests > 0
          /\ hostOffer \notin {NULL, UNDEFINED}
          /\ srd # <<>>
  /\ ~isHost /\ answerPosts > 0 => srd[1].pc = "done"
  /\ ~isHost /\ Exchanging
       => answerPosts > 0 /\ nmPc = "running" /\ guestAnswer \notin {NULL, UNDEFINED}

\* The responder, after a retry of the fetch, has posted its answer and its
\* timers have issued requests.
C34_Witness ==
  /\ ~isHost
  /\ sleeps # <<>>
  /\ nmPc = "running"
  /\ issued > 0
  /\ guestAnswer = "answer1"

\* A request of one of the candidate timers ends and the relay has not served it.
TimerRequestFails == Len(inflight') < Len(inflight) /\ UNCHANGED relayVars

\* C35: a request of the candidate timers that fails raises nothing to the
\* application, leaves the connection state alone and does not close the
\* direct connection or its channels, before and after connected.
C35_TimerFailuresIgnored ==
  [][TimerRequestFails =>
       /\ UNCHANGED <<nmError, nmPc, thrown>>
       /\ UNCHANGED <<connectionState, connectedObserved>>
       /\ UNCHANGED <<connection, peerConnection, reliableChannel, unreliableChannel, events>>]_vars

\* Connected, the relay shut down, and a failed pull has stopped the pull
\* timer: connection and orchestrator are as they were.
C35_Witness ==
  /\ server = "closed"
  /\ pushInterval
  /\ icePollInterval = NULL
  /\ connectionState = "connected"
  /\ peerConnection = "open"
  /\ nmError = NULL
  /\ issued = MaxRequests
  /\ inflight = <<>>

\* C36: each candidate this peer discovered is stored in the relay at most
\* once (counting the entries the relay has already handed out), however many
\* ticks of the push timer have run.
C36_CandidateStoredOnce ==
  \A n \in 1..MaxLocal : Cardinality({ e \in OwnStored : e.cand.id = n }) <= 1

\* C37: a completed move passes the turn exactly once, to the opponent of the
\* player who moved: a move made by a click flips currentTurn on that page, and
\* when a capture of an opposing piece has been resolved by its battle, the
\* page that resolved it holds the turn of the attacker's opponent.
C37_TurnPassesOnce ==
  [][\A p \in Peers :
       /\ (/\ game[p] # NoGame
           /\ inbox'[p] = inbox[p]
           /\ lastBattleEnd' = lastBattleEnd
           /\ game'[p].board # game[p].board)
            => game'[p].currentTurn = Flip(playerColor(p))
       /\ (/\ ~lastBattleEnd.ended
           /\ lastBattleEnd'.ended
           /\ lastBattleEnd'.peer = p
           /\ lastBattleEnd'.battle.attackingPiece.color
                # lastBattleEnd'.battle.defendingPiece.color)
            => game'[p].currentTurn = Flip(lastBattleEnd'.battle.attackingPiece.color)]_vars
====
